---- MODULE Spec2Model ----
(***************************************************************************)
(* plainlog: the asynchronous record pipeline (Core, Logger) of            *)
(* src/plainlog/_logger.py and the FingersCrossedHandler of                *)
(* src/plainlog/handlers.py, as a state machine.                           *)
(*                                                                         *)
(* Python dicts are functions with a finite domain of strings, tuples and  *)
(* deques are sequences, the insertion-ordered handler dict is a sequence  *)
(* of HandlerRecords.  Variables that the code does not have (calls,       *)
(* processed, received, stderr, ...) are history variables: they record    *)
(* what the callables supplied by the user were called with.               *)
(***************************************************************************)
EXTENDS Integers, Sequences, FiniteSets, TLC

\* ------------------------------------------------------------------ bounds
\* number of API calls (log, add, remove, configure, close) a run may start
MaxCalls == 3
\* number of records a FingersCrossedHandler run may be offered
MaxRecords == 5
\* largest buffer_size of a FingersCrossedHandler run
MaxBuffer == 3
\* number of Logger objects a run may hold, the root logger included
MaxLoggers == 3
\* number of log calls a run of the Logger methods may make
MaxLoggerCalls == 2
\* number of contextualize() blocks a thread may nest
MaxDepth == 2
\* number of log calls a run of the context threads may make
MaxCtxCalls == 1
\* the levels added with logging.addLevelName
MaxCustomLevels == 2

\* --------------------------------------------------------------- constants
\* sys.maxsize, the "no limit" sentinel of Core._min_level_no (as wide as
\* TLC's integers allow; only its order to the levels matters)
MaxSize == 2147483647

LEVEL_NOTSET == [no |-> 0, name |-> "NOTSET"]
LEVEL_DEBUG == [no |-> 10, name |-> "DEBUG"]
LEVEL_INFO == [no |-> 20, name |-> "INFO"]
LEVEL_WARNING == [no |-> 30, name |-> "WARNING"]
LEVEL_ERROR == [no |-> 40, name |-> "ERROR"]
LEVEL_CRITICAL == [no |-> 50, name |-> "CRITICAL"]

\* ------------------------------------------------------------------- dicts
EmptyDict == [k \in {} |-> 0]

\* {**d1, **d2}
Merge(d1, d2) ==
    [k \in (DOMAIN d1) \cup (DOMAIN d2) |-> IF k \in DOMAIN d2 THEN d2[k] ELSE d1[k]]

\* d.pop(key, None) for its effect on d
Pop(d, key) == [k \in (DOMAIN d) \ {key} |-> d[k]]

\* a value a callable returned: a dict, or None
RetDict(d) == [kind |-> "dict", val |-> d]
RetNone == [kind |-> "none", val |-> EmptyDict]

\* Python truth value of a returned value: None and {} are falsy
Truthy(ret) == ret.kind = "dict" /\ DOMAIN ret.val # {}

Min(a, b) == IF a <= b THEN a ELSE b

\* min(S, default=d)
MinOf(S, d) == IF S = {} THEN d ELSE CHOOSE x \in S : \A y \in S : x <= y

Range(s) == {s[i] : i \in 1..Len(s)}

\* -------------------------------------------------- processors.py callables
\* A (pre)processor call yields the record as the callable left it (records
\* are mutated in place), the value it returned, and whether it raised.
Returned(rec, ret) == [rec |-> rec, ret |-> ret, raised |-> FALSE]
Raised(rec) == [rec |-> rec, ret |-> RetNone, raised |-> TRUE]

preprocess_exc_info(rec) ==
    LET kwargs == IF "kwargs" \in DOMAIN rec THEN rec.kwargs ELSE EmptyDict
        exc_info == IF "exc_info" \in DOMAIN kwargs THEN kwargs["exc_info"] ELSE 0
        popped == IF "kwargs" \in DOMAIN rec
                  THEN [rec EXCEPT !.kwargs = Pop(kwargs, "exc_info")] ELSE rec
        rec2 == IF exc_info # 0
                THEN [k \in (DOMAIN popped) \cup {"exception"} |->
                        IF k = "exception" THEN 1 ELSE popped[k]]
                ELSE popped
    IN Returned(rec2, RetDict(rec2))

kwargs_to_extra(rec) ==
    LET kwargs == IF "kwargs" \in DOMAIN rec THEN rec.kwargs ELSE EmptyDict
        rec2 == IF DOMAIN kwargs # {} /\ "extra" \in DOMAIN rec
                THEN [rec EXCEPT !.extra = Merge(rec.extra, kwargs)] ELSE rec
    IN Returned(rec2, RetDict(rec2))

context_to_extra(rec) ==
    LET context == IF "context" \in DOMAIN rec THEN rec.context ELSE EmptyDict
        rec2 == IF DOMAIN context # {} /\ "extra" \in DOMAIN rec
                THEN [rec EXCEPT !.extra = Merge(rec.extra, context)] ELSE rec
    IN Returned(rec2, RetDict(rec2))

\* eval_lambda_dict replaces the values that are lambdas; the values of this
\* model are integers, which it leaves as they are
eval_extra(rec) == Returned(rec, RetDict(rec))

filter_all(rec) == Returned(rec, RetDict(EmptyDict))

\* callables of the caller, not of the library
\* a processor that raises an Exception
raising_processor(rec) == Raised(rec)
\* a processor that does `del record["level"]` and returns None
drop_level(rec) == Returned([k \in (DOMAIN rec) \ {"level"} |-> rec[k]], RetNone)

\* a processor that does `record["kwargs"]["t"] = 1` and returns None
tag(rec) == Returned([rec EXCEPT !.kwargs = Merge(@, [t |-> 1])], RetNone)
\* a processor that does `record["extra"]["t2"] = record["kwargs"].get("t", 0)`
\* and returns None
copy_tag(rec) ==
    Returned([rec EXCEPT !.extra = Merge(@, [t2 |-> IF "t" \in DOMAIN rec.kwargs
                                                    THEN rec.kwargs["t"] ELSE 0])],
             RetNone)

\* p(log_record) for the callable named p
CallProcessor(p, rec) ==
    CASE p = "preprocess_exc_info" -> preprocess_exc_info(rec)
      [] p = "kwargs_to_extra" -> kwargs_to_extra(rec)
      [] p = "context_to_extra" -> context_to_extra(rec)
      [] p = "eval_extra" -> eval_extra(rec)
      [] p = "filter_all" -> filter_all(rec)
      [] p = "raising_processor" -> raising_processor(rec)
      [] p = "drop_level" -> drop_level(rec)
      [] p = "tag" -> tag(rec)
      [] p = "copy_tag" -> copy_tag(rec)

DEFAULT_PREPROCESSORS == <<"preprocess_exc_info">>
DEFAULT_PROCESSORS == <<"context_to_extra", "kwargs_to_extra", "eval_extra">>

\* ------------------------------------------------------- _recattrs.py types
Options(name, preprocessors, processors, extra) ==
    [name |-> name, preprocessors |-> preprocessors, processors |-> processors,
     extra |-> extra]

HandlerRecord(name, level, print_errors, handler) ==
    [name |-> name, level |-> level, print_errors |-> print_errors, handler |-> handler]

None == "None"

\* ----------------------------------------------- the callables of the caller
\* handler objects: cap and cap2 capture what they are called with, bad
\* raises an Exception on every call
HandlerObjs == {"cap", "cap2", "bad"}
HandlerRaises(h) == h = "bad"
\* what a handler does to the dict it is called with, as a list of item
\* assignments and deletions: path <<k>> is record[k], path <<k, j>> is
\* record[k][j]
SetItem(path, value) == [op |-> "setitem", path |-> path, value |-> value]
DelItem(path) == [op |-> "delitem", path |-> path, value |-> 0]

\* edit_top changes the dict it is called with (record["msg"] = "edited",
\* del record["name"], record["seen"] = 1), edit_extra changes the extra dict
\* in it (record["extra"]["seen"] = 1); the other handlers change nothing
HandlerOps(h) ==
    CASE h = "edit_top" -> <<SetItem(<<"msg">>, "edited"), DelItem(<<"name">>),
                             SetItem(<<"seen">>, 1)>>
      [] h = "edit_extra" -> <<SetItem(<<"extra", "seen">>, 1)>>
      [] OTHER -> <<>>

\* cap2 and bad expose close(); the close() of bad raises
HasClose(h) == h \in {"cap2", "bad"}
CloseRaises(h) == h = "bad"
\* handler.__name__, the name add() gives a handler that comes without one
NameOf(h) == h

\* Core.level for the level names add() is given (_get_levels)
LevelOf(key) ==
    CASE key = "NOTSET" -> LEVEL_NOTSET
      [] key = "DEBUG" -> LEVEL_DEBUG
      [] key = "INFO" -> LEVEL_INFO
      [] key = "WARNING" -> LEVEL_WARNING
      [] key = "ERROR" -> LEVEL_ERROR
      [] key = "CRITICAL" -> LEVEL_CRITICAL

\* ------------------------------------------------------------------- state
VARIABLES
    queue,            \* Core._queue: the commands put and not yet got
    handlers,         \* Core._handlers, in insertion order
    min_level_no,     \* Core._min_level_no
    options,          \* Core._options
    worker,           \* Core._thread: "running", "stopped" (STOP), "crashed"
    events,           \* the Event objects that are set
    plainlog_context, \* the ContextVar, per thread
    pc,               \* per thread: where it is in the call it executes
    loc,              \* per thread: the locals of that call
    received,         \* history: per handler object, the records it was called with
    closeCalls,       \* history: per handler object, the number of close() calls
    stderr,           \* history: the diagnostics written to sys.stderr
    calls,            \* history: the API calls started, by call id
    processed,        \* history: the LOG commands the worker has got
    lastAdd,          \* history: per thread, the id of the add() that just returned
    lastCfg,          \* history: per thread, the id of the last configure() that returned
    fcInput,          \* FingersCrossedHandler run: the records offered so far
    fc,               \* FingersCrossedHandler run: the handler object and its inner handler
    loggers,          \* the Logger objects created so far: their _options
    dicts,            \* the dict objects the extra of the Logger objects refer to
    blocks,           \* per thread: the contextualize() blocks it is in, innermost last
    base,             \* history: per thread, the ambient context outside every block
    levelToName,      \* logging._levelToName: the entries added after those of logging
    levels,           \* Core._levels: the added entries _get_levels() built it from
    lookup            \* history: the last Core.level call, if any

coreVars == <<queue, handlers, min_level_no, options, worker, events>>
histVars == <<received, closeCalls, stderr, calls, processed, lastAdd, lastCfg>>
fcVars == <<fcInput, fc>>
lgVars == <<loggers, dicts>>
ctxVars == <<blocks, base>>
lvVars == <<levelToName, levels, lookup>>
vars == <<queue, handlers, min_level_no, options, worker, events, plainlog_context,
          pc, loc, received, closeCalls, stderr, calls, processed, lastAdd, lastCfg,
          fcInput, fc, loggers, dicts, blocks, base, levelToName, levels, lookup>>

Threads == {"t1"}
\* the threads of the runs in which a second thread sets a context
ContextThreads == {"t1", "t2"}

\* ------------------------------------------------------------ Core._worker
\* queue.put((command, message))
QueuePut(q, command, message) == Append(q, [command |-> command, message |-> message])

\* a queue.get() that hands out the newest command
QueueGetNewest(q) == [item |-> q[Len(q)], rest |-> SubSeq(q, 1, Len(q) - 1)]

\* queue.get(): the oldest command, and the queue without it
QueueGet(q) == [item |-> Head(q), rest |-> Tail(q)]

\* `if stop:` on what a processor returned
ProcessorStop(ret) == Truthy(ret)

\* a chain that starts with the Core's processors
ProcessorChainCoreFirst(processors, core_processors) == core_processors \o processors

\* (*processors, *self._options.processors)
ProcessorChain(processors, core_processors) == processors \o core_processors

\* an exception of a processor read as the signal to stop
SuppressedStopDrop(stop) == TRUE

\* `with contextlib.suppress(Exception): stop = p(log_record)` when p raises:
\* the assignment does not happen and stop is what it was before the call
SuppressedStop(stop) == stop

\* the loop over (*processors, *self._options.processors): stop is False
\* before the first call and falsy before every later one (the loop had
\* ended otherwise)
RECURSIVE RunProcessors(_, _)
RunProcessors(ps, rec) ==
    IF ps = <<>> THEN [rec |-> rec, stop |-> FALSE]
    ELSE LET r == CallProcessor(Head(ps), rec)
             stop == IF r.raised THEN SuppressedStop(FALSE) ELSE ProcessorStop(r.ret)
         IN IF stop THEN [rec |-> r.rec, stop |-> TRUE]
            ELSE RunProcessors(Tail(ps), r.rec)

\* a handler exception that ends the dispatch of the record
OnHandlerExceptionAbort(rest) == <<>>

\* what follows `except Exception` of a handler call: the loop goes on with
\* the handlers after the one that raised
OnHandlerException(rest) == rest

\* a diagnostic written whatever print_errors is
ErrorLineAlways(kind, name, print_errors) == <<[kind |-> kind, handler |-> name]>>

\* the diagnostic of _print_error / of the print in REMOVE_HANDLER
ErrorLine(kind, name, print_errors) ==
    IF print_errors THEN <<[kind |-> kind, handler |-> name]>> ELSE <<>>

\* a handler loop without the level test
HandlerAcceptsAll(level_no, handler_level_no) == TRUE

\* `if log_record["level"].no >= level.no:`
HandlerAccepts(level_no, handler_level_no) == level_no >= handler_level_no

\* d[key] = value and del d[key] on the items of a dict
DictSet(d, key, value) == [k \in (DOMAIN d) \cup {key} |-> IF k = key THEN value ELSE d[k]]
DictDel(d, key) == [k \in (DOMAIN d) \ {key} |-> d[k]]

\* handler(log_record.copy()): dict.copy() makes a new dict that holds the
\* same value objects.  An operation on the copy itself leaves log_record as
\* it is; an operation inside a value (the extra, kwargs or context dict) is
\* done to the object log_record holds as well, unless the handler has put
\* an object of its own under that key before (own).  The result is
\* log_record after the call
RECURSIVE RunHandler(_, _, _)
RunHandler(ops, log_record, own) ==
    IF ops = <<>> THEN log_record
    ELSE LET o == Head(ops)
             k == o.path[1]
         IN IF Len(o.path) = 1
            THEN RunHandler(Tail(ops), log_record, own \cup {k})
            ELSE IF k \in own \/ k \notin DOMAIN log_record
            THEN RunHandler(Tail(ops), log_record, own)
            ELSE RunHandler(Tail(ops),
                            [log_record EXCEPT ![k] =
                                IF o.op = "setitem" THEN DictSet(@, o.path[2], o.value)
                                ELSE DictDel(@, o.path[2])],
                            own)

\* the loop over self._handlers.values(): log_record["level"] of a record
\* without that key raises KeyError outside every try, which ends the thread;
\* called is the handler records whose handler was called, in call order
RECURSIVE Dispatch(_, _, _, _, _)
Dispatch(hs, rec, recv, err, called) ==
    IF hs = <<>>
    THEN [received |-> recv, stderr |-> err, crashed |-> FALSE, called |-> called]
    ELSE IF "level" \notin DOMAIN rec
    THEN [received |-> recv, stderr |-> err, crashed |-> TRUE, called |-> called]
    ELSE LET h == Head(hs) IN
         IF HandlerAccepts(rec.level.no, h.level.no)
         THEN LET recv2 == [recv EXCEPT ![h.handler] = Append(@, rec)]
                  rec2 == RunHandler(HandlerOps(h.handler), rec, {})
              IN IF HandlerRaises(h.handler)
                 THEN Dispatch(OnHandlerException(Tail(hs)), rec2, recv2,
                               err \o ErrorLine("emit", h.name, h.print_errors),
                               Append(called, h))
                 ELSE Dispatch(Tail(hs), rec2, recv2, err, Append(called, h))
         ELSE Dispatch(Tail(hs), rec, recv, err, called)

HandlerNames(hs) == {hs[i].name : i \in 1..Len(hs)}

\* an ADD_HANDLER that leaves the minimum level as it is
MinAfterAddKeep(min_no, level_no) == min_no

\* self._min_level_no = min(self._min_level_no, handler_record.level.no)
MinAfterAdd(min_no, level_no) == Min(min_no, level_no)

\* an ADD_HANDLER that replaces the handler record of a name that is taken
AddHandlerReplace(hs, min_no, hr) ==
    [handlers |-> Append(SelectSeq(hs, LAMBDA x : x.name # hr.name), hr),
     min_level_no |-> MinAfterAdd(min_no, hr.level.no)]

\* ADD_HANDLER: the handlers and the minimum level after the command
AddHandler(hs, min_no, hr) ==
    IF hr.name \notin HandlerNames(hs)
    THEN [handlers |-> Append(hs, hr), min_level_no |-> MinAfterAdd(min_no, hr.level.no)]
    ELSE [handlers |-> hs, min_level_no |-> min_no]

\* a REMOVE_HANDLER that resets the minimum level to the default
MinAfterRemoveSentinel(hs) == MaxSize

\* min((h.level.no for h in handlers.values()), default=sys.maxsize)
MinAfterRemove(hs) == MinOf({hs[i].level.no : i \in 1..Len(hs)}, MaxSize)

WithoutName(hs, name) == SelectSeq(hs, LAMBDA h : h.name # name)

\* an exception of handler.close() that ends the loop over handler_names
OnCloseExceptionAbort(rest) == <<>>

\* what follows `except Exception` of handler.close(): the loop goes on with
\* the names after the one whose handler raised
OnCloseException(rest) == rest

\* REMOVE_HANDLER: the loop over handler_names
RECURSIVE RemoveHandlers(_, _, _, _, _)
RemoveHandlers(names, hs, min_no, closed, err) ==
    IF names = <<>>
    THEN [handlers |-> hs, min_level_no |-> min_no, closeCalls |-> closed, stderr |-> err]
    ELSE IF Head(names) \notin HandlerNames(hs)
    THEN RemoveHandlers(Tail(names), hs, min_no, closed, err)
    ELSE LET hr == CHOOSE h \in Range(hs) : h.name = Head(names)
             left == WithoutName(hs, Head(names))
             closed2 == IF HasClose(hr.handler)
                        THEN [closed EXCEPT ![hr.handler] = @ + 1] ELSE closed
             raised == HasClose(hr.handler) /\ CloseRaises(hr.handler)
             err2 == IF raised
                     THEN err \o ErrorLine("close", hr.name, hr.print_errors) ELSE err
             names2 == IF raised THEN OnCloseException(Tail(names)) ELSE Tail(names)
         IN RemoveHandlers(names2, left, MinAfterRemove(left), closed2, err2)

HandlerNameList(hs) == [i \in 1..Len(hs) |-> hs[i].name]

\* ------------------------------------------------------------- the inputs
\* Logger objects: the root logger, and logger.new(name="crash",
\* processors=drop_level)
LoggerRoot == Options("root", <<>>, <<>>, EmptyDict)
LoggerCrash == Options("crash", <<>>, <<"drop_level">>, EmptyDict)

\* logger.debug("x"), logger.info("y", a=1), crash.info("x")
LogInputs ==
    { [lg |-> LoggerRoot, level |-> LEVEL_DEBUG, msg |-> "x", kwargs |-> EmptyDict],
      [lg |-> LoggerRoot, level |-> LEVEL_INFO, msg |-> "y", kwargs |-> [a |-> 1]],
      [lg |-> LoggerCrash, level |-> LEVEL_INFO, msg |-> "x", kwargs |-> EmptyDict] }

\* add(cap, level="INFO"), add(bad, level="DEBUG"),
\* add(cap2, name="cap", level="DEBUG", print_errors=False)
AddInputs ==
    { [handler |-> "cap", name |-> None, level |-> "INFO", print_errors |-> TRUE],
      [handler |-> "bad", name |-> None, level |-> "DEBUG", print_errors |-> TRUE],
      [handler |-> "cap2", name |-> "cap", level |-> "DEBUG", print_errors |-> FALSE] }

RemoveInputs == {None, "cap"}

\* configure(handlers=[{handler: cap, level: "INFO"}], preprocessors=
\* DEFAULT_PREPROCESSORS, processors=DEFAULT_PROCESSORS) as configure._default
\* does, and configure(processors=filter_all, extra={"a": -1});  hasHandlers is
\* `handlers is not None`
ConfigInputs ==
    { [hasHandlers |-> TRUE,
       handlers |-> <<[handler |-> "cap", name |-> None, level |-> "INFO",
                       print_errors |-> TRUE]>>,
       preprocessors |-> DEFAULT_PREPROCESSORS, processors |-> DEFAULT_PROCESSORS,
       extra |-> EmptyDict],
      [hasHandlers |-> FALSE, handlers |-> <<>>,
       preprocessors |-> <<>>, processors |-> <<"filter_all">>, extra |-> [a |-> -1]] }

\* ------------------------------------------------------ history bookkeeping
NoHandlerRecord == HandlerRecord(None, LEVEL_NOTSET, FALSE, None)
CoreOptions0 == Options("CORE", <<>>, <<>>, EmptyDict)

\* the locals of a thread that executes no call
NoInput == [none |-> TRUE]

LocIdle ==
    [id |-> 0, input |-> NoInput, ev |-> <<0, 0>>, waits |-> 0, timedOut |-> FALSE,
     ret |-> "return", todo |-> <<>>, added |-> FALSE, hr |-> NoHandlerRecord,
     opts |-> CoreOptions0, hasHandlers |-> FALSE, expect |-> <<>>]

\* history of a thread's contextualize() blocks: ctx is its ambient context
\* outside every block; left tells, while it has entered no block since, how
\* it left the last outermost block
NoBlockLeft == [ctx |-> EmptyDict, left |-> "none"]

\* the entry of a call that starts
NewCall(op, t) ==
    [op |-> op, thread |-> t, done |-> FALSE, timedOut |-> FALSE, outcome |-> "pending",
     input |-> NoInput, level_no |-> 0, minSeen |-> 0, built |-> FALSE, preRun |-> <<>>, seq |-> 0,
     optsSeen |-> CoreOptions0, cfg |-> 0, after |-> 0,
     hr |-> NoHandlerRecord, registered |-> FALSE,
     opts |-> CoreOptions0, applied |-> FALSE,
     ctxs |-> EmptyDict, outer |-> NoBlockLeft, depth |-> 0]

CanCall(t) == pc[t] = "idle" /\ Len(calls) < MaxCalls

\* -------------------------------------------------------------- Logger._log
\* a level check with the comparison turned round
BelowMinLevelInverted(level_no, min_no) == level_no > min_no

\* `if level_no < core.min_level_no: return None`
BelowMinLevel(level_no, min_no) == level_no < min_no

\* a record that carries no context
SnapshotContextEmpty(ctx) == EmptyDict

\* {**plainlog_context.get({})}: a new dict with the items of the ambient one
SnapshotContext(ctx) == ctx

\* a record in which the Core's extra overrides the Logger's
MakeRecordCoreWins(id, level, msg, name, context, core_extra, extra, kwargs) ==
    [id |-> id, level |-> level, msg |-> msg, message |-> msg, name |-> name,
     context |-> context, extra |-> Merge(extra, core_extra), kwargs |-> kwargs]

\* the log_record dict of _log (datetime, process_id, process_name and args
\* are left out: nothing in the pipeline reads them); id is the call's id
MakeRecord(id, level, msg, name, context, core_extra, extra, kwargs) ==
    [id |-> id, level |-> level, msg |-> msg, message |-> msg, name |-> name,
     context |-> context, extra |-> Merge(core_extra, extra), kwargs |-> kwargs]

\* `if stop: return None` on what a preprocessor returned
PreprocessorStop(ret) == Truthy(ret)

\* a chain that starts with the Core's preprocessors
PreprocessorChainCoreFirst(preprocessors, core_preprocessors) ==
    core_preprocessors \o preprocessors

\* (*preprocessors, *core_preprocessors)
PreprocessorChain(preprocessors, core_preprocessors) ==
    preprocessors \o core_preprocessors

\* the loop over (*preprocessors, *core_preprocessors); an exception of a
\* preprocessor leaves _log.  ran is the preprocessors called, in call order
RECURSIVE RunPreprocessors(_, _, _)
RunPreprocessors(ps, rec, ran) ==
    IF ps = <<>> THEN [rec |-> rec, stop |-> FALSE, raised |-> FALSE, ran |-> ran]
    ELSE LET r == CallProcessor(Head(ps), rec) IN
         IF r.raised THEN [rec |-> r.rec, stop |-> FALSE, raised |-> TRUE, ran |-> Append(ran, Head(ps))]
         ELSE IF PreprocessorStop(r.ret)
         THEN [rec |-> r.rec, stop |-> TRUE, raised |-> FALSE, ran |-> Append(ran, Head(ps))]
         ELSE RunPreprocessors(Tail(ps), r.rec, Append(ran, Head(ps)))

\* the number of LOG commands put so far
Enqueued == Cardinality({i \in 1..Len(calls) : calls[i].outcome = "enqueued"})

\* _log up to the level check
LogStart(t, in) ==
    /\ CanCall(t)
    /\ LET id == Len(calls) + 1
           call == [NewCall("log", t) EXCEPT !.input = in, !.level_no = in.level.no,
                       !.minSeen = min_level_no, !.cfg = lastCfg[t], !.after = lastAdd[t],
                       !.ctxs = plainlog_context, !.outer = base[t],
                       !.depth = Len(blocks[t])]
       IN IF BelowMinLevel(in.level.no, min_level_no)
          THEN /\ calls' = Append(calls, [call EXCEPT !.done = TRUE, !.outcome = "fast_exit"])
               /\ UNCHANGED <<pc, loc>>
          ELSE /\ calls' = Append(calls, call)
               /\ pc' = [pc EXCEPT ![t] = "log_build"]
               /\ loc' = [loc EXCEPT ![t] = [LocIdle EXCEPT !.id = id, !.input = in]]
    /\ lastAdd' = [lastAdd EXCEPT ![t] = 0]
    /\ UNCHANGED <<coreVars, plainlog_context, received, closeCalls, stderr, processed,
                   lastCfg, fcVars, lgVars, ctxVars, lvVars>>

\* _log from the read of core.options to core.log(log_record, processors)
LogBuild(t) ==
    /\ pc[t] = "log_build"
    /\ LET in == loc[t].input
           id == loc[t].id
           log_record == MakeRecord(id, in.level, in.msg, in.lg.name,
                                    SnapshotContext(plainlog_context[t]),
                                    options.extra, in.lg.extra, in.kwargs)
           r == RunPreprocessors(PreprocessorChain(in.lg.preprocessors, options.preprocessors),
                                 log_record, <<>>)
           outcome == IF r.raised THEN "raised" ELSE IF r.stop THEN "pre_drop" ELSE "enqueued"
       IN /\ queue' = IF outcome = "enqueued"
                      THEN QueuePut(queue, "LOG", [rec |-> r.rec, processors |-> in.lg.processors])
                      ELSE queue
          /\ calls' = [calls EXCEPT ![id] = [@ EXCEPT !.done = TRUE, !.outcome = outcome,
                          !.built = TRUE, !.preRun = r.ran, !.optsSeen = options,
                          !.seq = IF outcome = "enqueued" THEN Enqueued + 1 ELSE 0]]
    /\ pc' = [pc EXCEPT ![t] = "idle"]
    /\ loc' = [loc EXCEPT ![t] = LocIdle]
    /\ UNCHANGED <<handlers, min_level_no, options, worker, events, plainlog_context,
                   received, closeCalls, stderr, processed, lastAdd, lastCfg, fcVars, lgVars,
                   ctxVars, lvVars>>

\* ------------------------------------------------- Core.wait_for_processed
\* the end of an API call: its history entry is completed
Finish(t, timedOut) ==
    LET id == loc[t].id
        op == calls[id].op
    IN /\ calls' = [calls EXCEPT ![id] = [@ EXCEPT !.done = TRUE, !.timedOut = timedOut,
                       !.outcome = "returned",
                       !.registered = \E i \in 1..Len(handlers) : handlers[i] = loc[t].hr,
                       !.applied = /\ options = loc[t].opts
                                   /\ loc[t].hasHandlers => handlers = loc[t].expect]]
       /\ lastAdd' = [lastAdd EXCEPT ![t] = IF op = "add" THEN id ELSE 0]
       /\ lastCfg' = [lastCfg EXCEPT ![t] = IF op = "configure" THEN id ELSE @]
       /\ pc' = [pc EXCEPT ![t] = "idle"]
       /\ loc' = [loc EXCEPT ![t] = LocIdle]

\* wait_for_processed() up to event.wait(): `event = Event();
\* self._put(Command.EVENT, event)` on queue q, by a caller whose local
\* state is l; the Event is named by the call and the number of its wait
WaitPut(q, l) ==
    LET ev == <<l.id, l.waits + 1>> IN
    [queue |-> QueuePut(q, "EVENT", ev),
     loc |-> [l EXCEPT !.ev = ev, !.waits = @ + 1]]

\* event.wait(timeout) returns because the event is set
WaitSet(t) ==
    /\ pc[t] \in {"waiting", "waiting_forever"}
    /\ loc[t].ev \in events
    /\ IF loc[t].ret = "return"
       THEN Finish(t, FALSE)
       ELSE /\ pc' = [pc EXCEPT ![t] = loc[t].ret]
            /\ loc' = [loc EXCEPT ![t] = [@ EXCEPT !.timedOut = FALSE]]
            /\ UNCHANGED <<calls, lastAdd, lastCfg>>
    /\ UNCHANGED <<coreVars, plainlog_context, received, closeCalls, stderr, processed,
                   fcVars, lgVars, ctxVars, lvVars>>

\* event.wait(timeout) returns because DEFAULT_WAIT_TIMEOUT has passed
WaitTimeout(t) ==
    /\ pc[t] = "waiting"
    /\ loc[t].ev \notin events
    /\ IF loc[t].ret = "return"
       THEN Finish(t, TRUE)
       ELSE /\ pc' = [pc EXCEPT ![t] = loc[t].ret]
            /\ loc' = [loc EXCEPT ![t] = [@ EXCEPT !.timedOut = TRUE]]
            /\ UNCHANGED <<calls, lastAdd, lastCfg>>
    /\ UNCHANGED <<coreVars, plainlog_context, received, closeCalls, stderr, processed,
                   fcVars, lgVars, ctxVars, lvVars>>

\* --------------------------------------------------- Core.add / Core.remove
\* the HandlerRecord add() builds from its parameters
AddRecord(params) ==
    HandlerRecord(IF params.name = None THEN NameOf(params.handler) ELSE params.name,
                  LevelOf(params.level), params.print_errors, params.handler)

\* add(): self._put(Command.ADD_HANDLER, handler_record) and
\* self.wait_for_processed() up to its event.wait()
AddStart(t, in) ==
    /\ CanCall(t)
    /\ LET id == Len(calls) + 1
           hr == AddRecord(in)
           w == WaitPut(QueuePut(queue, "ADD_HANDLER", hr),
                        [LocIdle EXCEPT !.id = id, !.hr = hr])
       IN /\ queue' = w.queue
          /\ calls' = Append(calls, [NewCall("add", t) EXCEPT !.input = in, !.hr = hr])
          /\ loc' = [loc EXCEPT ![t] = w.loc]
    /\ pc' = [pc EXCEPT ![t] = "waiting"]
    /\ lastAdd' = [lastAdd EXCEPT ![t] = 0]
    /\ UNCHANGED <<handlers, min_level_no, options, worker, events, plainlog_context,
                   received, closeCalls, stderr, processed, lastCfg, fcVars, lgVars, ctxVars, lvVars>>

\* remove(): self._put(Command.REMOVE_HANDLER, name) and
\* self.wait_for_processed() up to its event.wait()
RemoveStart(t, name) ==
    /\ CanCall(t)
    /\ LET w == WaitPut(QueuePut(queue, "REMOVE_HANDLER", name),
                        [LocIdle EXCEPT !.id = Len(calls) + 1])
       IN /\ queue' = w.queue
          /\ loc' = [loc EXCEPT ![t] = w.loc]
    /\ calls' = Append(calls, NewCall("remove", t))
    /\ pc' = [pc EXCEPT ![t] = "waiting"]
    /\ lastAdd' = [lastAdd EXCEPT ![t] = 0]
    /\ UNCHANGED <<handlers, min_level_no, options, worker, events, plainlog_context,
                   received, closeCalls, stderr, processed, lastCfg, fcVars, lgVars, ctxVars, lvVars>>

\* wait_for_processed(timeout): timeout is None (the default) or a number of
\* seconds; event.wait(None) returns only when the event is set
WaitInputs == {None, "DEFAULT_WAIT_TIMEOUT"}

WaitForProcessedStart(t, timeout) ==
    /\ CanCall(t)
    /\ LET w == WaitPut(queue, [LocIdle EXCEPT !.id = Len(calls) + 1])
       IN /\ queue' = w.queue
          /\ loc' = [loc EXCEPT ![t] = w.loc]
    /\ calls' = Append(calls, NewCall("wait", t))
    /\ pc' = [pc EXCEPT ![t] = IF timeout = None THEN "waiting_forever" ELSE "waiting"]
    /\ lastAdd' = [lastAdd EXCEPT ![t] = 0]
    /\ UNCHANGED <<handlers, min_level_no, options, worker, events, plainlog_context,
                   received, closeCalls, stderr, processed, lastCfg, fcVars, lgVars, ctxVars, lvVars>>

\* ---------------------------------------- the types of the parameters
\* a Python object passed as a parameter: its type, its value as the model
\* names it, the items of a dict and the elements of a tuple
PyObject(type, val, items, elems) ==
    [type |-> type, val |-> val, items |-> items, elems |-> elems]
PyNone == PyObject("NoneType", None, EmptyDict, <<>>)
PyInt(n) == PyObject("int", n, EmptyDict, <<>>)
PyStr(x) == PyObject("str", x, EmptyDict, <<>>)
PyFunction(f) == PyObject("function", f, EmptyDict, <<>>)
PyDict(d) == PyObject("dict", None, d, <<>>)
PyTuple(elems) == PyObject("tuple", None, EmptyDict, elems)

\* a test that takes every object for a callable
IsCallableAny(x) == TRUE

\* callable(x)
IsCallable(x) == x.type = "function"

\* _validate_callables: the tuple of callables, or the exception raised
ValidateCallables(x) ==
    LET callables == IF x.type = "NoneType" THEN <<>>
                     ELSE IF x.type = "tuple" THEN x.elems ELSE <<x>>
    IN IF \E i \in 1..Len(callables) : ~IsCallable(callables[i])
       THEN [raised |-> "ValueError", ret |-> <<>>]
       ELSE [raised |-> "", ret |-> [i \in 1..Len(callables) |-> callables[i].val]]

\* _validate_name
ValidateName(x) ==
    IF x.type # "str" THEN [raised |-> "ValueError", ret |-> None]
    ELSE [raised |-> "", ret |-> x.val]

\* _validate_extra up to deepcopy(extra)
ValidateMapping(x) ==
    IF x.type = "NoneType" THEN [raised |-> "", ret |-> EmptyDict]
    ELSE IF x.type # "dict" THEN [raised |-> "ValueError", ret |-> EmptyDict]
    ELSE [raised |-> "", ret |-> x.items]

\* ------------------------------------------------------------ Core.configure
\* the handlers that the add() calls of configure(handlers=...) register on
\* a Core whose handlers were all removed
RECURSIVE HandlersOf(_, _)
HandlersOf(hs, params) ==
    IF params = <<>> THEN hs
    ELSE HandlersOf(AddHandler(hs, MaxSize, AddRecord(Head(params))).handlers, Tail(params))

\* configure() up to the event.wait() of the self.remove() of
\* `if handlers is not None`
ConfigureStart(t, in) ==
    /\ CanCall(t)
    /\ LET id == Len(calls) + 1
           opts == Options("CORE", in.preprocessors, in.processors, in.extra)
           l == [LocIdle EXCEPT !.id = id, !.opts = opts, !.todo = in.handlers,
                    !.hasHandlers = in.hasHandlers, !.expect = HandlersOf(<<>>, in.handlers),
                    !.ret = "cfg_options"]
       IN /\ calls' = Append(calls, [NewCall("configure", t) EXCEPT !.input = in,
                                        !.opts = opts])
          /\ IF in.hasHandlers
             THEN LET w == WaitPut(QueuePut(queue, "REMOVE_HANDLER", None), l) IN
                  /\ queue' = w.queue
                  /\ loc' = [loc EXCEPT ![t] = w.loc]
                  /\ pc' = [pc EXCEPT ![t] = "waiting"]
             ELSE /\ queue' = queue
                  /\ loc' = [loc EXCEPT ![t] = l]
                  /\ pc' = [pc EXCEPT ![t] = "cfg_options"]
    /\ lastAdd' = [lastAdd EXCEPT ![t] = 0]
    /\ UNCHANGED <<handlers, min_level_no, options, worker, events, plainlog_context,
                   received, closeCalls, stderr, processed, lastCfg, fcVars, lgVars, ctxVars, lvVars>>

\* _validate_extra(extra), _validate_callables(preprocessors, ...) and
\* _validate_callables(processors, ...) of configure(): the exception of the
\* first that fails
ConfigureRaises(params) ==
    IF ValidateMapping(params.extra).raised # "" THEN ValidateMapping(params.extra).raised
    ELSE IF ValidateCallables(params.preprocessors).raised # ""
    THEN ValidateCallables(params.preprocessors).raised
    ELSE ValidateCallables(params.processors).raised

\* the validation of extra, preprocessors and processors, and
\* self._put(Command.OPTIONS, options).  A call made with parameters of any
\* type (ConfigureCall) carries them in its input; an exception of the
\* validation leaves configure() here
ConfigureOptions(t) ==
    /\ pc[t] = "cfg_options"
    /\ LET id == loc[t].id
           in == calls[id].input
           exception == IF "params" \in DOMAIN in THEN ConfigureRaises(in.params) ELSE ""
       IN IF exception # ""
          THEN /\ calls' = [calls EXCEPT ![id] = [@ EXCEPT !.done = TRUE,
                                                           !.outcome = "raised"]]
               /\ pc' = [pc EXCEPT ![t] = "idle"]
               /\ loc' = [loc EXCEPT ![t] = LocIdle]
               /\ UNCHANGED queue
          ELSE /\ queue' = QueuePut(queue, "OPTIONS", loc[t].opts)
               /\ pc' = [pc EXCEPT ![t] = "cfg_add"]
               /\ UNCHANGED <<loc, calls>>
    /\ UNCHANGED <<handlers, min_level_no, options, worker, events, plainlog_context,
                   received, closeCalls, stderr, processed, lastAdd, lastCfg,
                   fcVars, lgVars, ctxVars, lvVars>>

\* Core.configure(handlers=..., extra=..., preprocessors=..., processors=...)
\* with parameters of any type; handlers is None (given is FALSE) or a list
\* of add() parameters.  before is history: the Core as the call found it
ConfigureCall(t, params) ==
    ConfigureStart(t, [hasHandlers |-> params.handlers.given,
                       handlers |-> params.handlers.list,
                       preprocessors |-> ValidateCallables(params.preprocessors).ret,
                       processors |-> ValidateCallables(params.processors).ret,
                       extra |-> ValidateMapping(params.extra).ret,
                       params |-> params,
                       before |-> [handlers |-> handlers, min_level_no |-> min_level_no,
                                   options |-> options]])

\* `for params in handlers: added.append(self.add(**params))`, then
\* `if not added: self.wait_for_processed(...)`, then `return added`
ConfigureAdd(t) ==
    /\ pc[t] = "cfg_add"
    /\ IF loc[t].todo # <<>>
       THEN LET w == WaitPut(QueuePut(queue, "ADD_HANDLER", AddRecord(Head(loc[t].todo))),
                             [loc[t] EXCEPT !.todo = Tail(@), !.added = TRUE,
                                            !.ret = "cfg_add"]) IN
            /\ queue' = w.queue
            /\ loc' = [loc EXCEPT ![t] = w.loc]
            /\ pc' = [pc EXCEPT ![t] = "waiting"]
            /\ UNCHANGED <<calls, lastAdd, lastCfg>>
       ELSE IF ~loc[t].added
       THEN LET w == WaitPut(queue, [loc[t] EXCEPT !.ret = "return"]) IN
            /\ queue' = w.queue
            /\ loc' = [loc EXCEPT ![t] = w.loc]
            /\ pc' = [pc EXCEPT ![t] = "waiting"]
            /\ UNCHANGED <<calls, lastAdd, lastCfg>>
       ELSE /\ Finish(t, loc[t].timedOut)
            /\ UNCHANGED queue
    /\ UNCHANGED <<handlers, min_level_no, options, worker, events, plainlog_context,
                   received, closeCalls, stderr, processed, fcVars, lgVars, ctxVars, lvVars>>

\* ---------------------------------------------------------------- Core.close
\* Core.is_alive()
IsAlive == worker = "running"

\* close(): `if self.is_alive():` and self.wait_for_processed() up to its
\* event.wait()
CloseStart(t) ==
    /\ CanCall(t)
    /\ LET id == Len(calls) + 1
           w == WaitPut(queue, [LocIdle EXCEPT !.id = id, !.ret = "close_remove"])
       IN IF IsAlive
          THEN /\ calls' = Append(calls, NewCall("close", t))
               /\ queue' = w.queue
               /\ loc' = [loc EXCEPT ![t] = w.loc]
               /\ pc' = [pc EXCEPT ![t] = "waiting"]
          ELSE /\ calls' = Append(calls, [NewCall("close", t) EXCEPT !.done = TRUE,
                                             !.outcome = "not_alive"])
               /\ UNCHANGED <<queue, pc, loc>>
    /\ lastAdd' = [lastAdd EXCEPT ![t] = 0]
    /\ UNCHANGED <<handlers, min_level_no, options, worker, events, plainlog_context,
                   received, closeCalls, stderr, processed, lastCfg, fcVars, lgVars, ctxVars, lvVars>>

\* the self.remove() of close(), up to its event.wait()
CloseRemove(t) ==
    /\ pc[t] = "close_remove"
    /\ LET w == WaitPut(QueuePut(queue, "REMOVE_HANDLER", None),
                        [loc[t] EXCEPT !.ret = "close_stop"])
       IN /\ queue' = w.queue
          /\ loc' = [loc EXCEPT ![t] = w.loc]
    /\ pc' = [pc EXCEPT ![t] = "waiting"]
    /\ UNCHANGED <<handlers, min_level_no, options, worker, events, plainlog_context,
                   histVars, fcVars, lgVars, ctxVars, lvVars>>

\* self.stop()
CloseStop(t) ==
    /\ pc[t] = "close_stop"
    /\ queue' = QueuePut(queue, "STOP", None)
    /\ pc' = [pc EXCEPT ![t] = "close_join"]
    /\ UNCHANGED <<handlers, min_level_no, options, worker, events, plainlog_context,
                   loc, histVars, fcVars, lgVars, ctxVars, lvVars>>

\* self.join() returns when the worker thread has ended
CloseJoin(t) ==
    /\ pc[t] = "close_join"
    /\ ~IsAlive
    /\ Finish(t, loc[t].timedOut)
    /\ UNCHANGED <<coreVars, plainlog_context, received, closeCalls, stderr, processed,
                   fcVars, lgVars, ctxVars, lvVars>>

\* ------------------------------------------------ _get_levels and Core.level
\* the characters of the level names, for name[0]
NameChars ==
    [NOTSET |-> <<"N", "O", "T", "S", "E", "T">>, DEBUG |-> <<"D", "E", "B", "U", "G">>,
     INFO |-> <<"I", "N", "F", "O">>, WARNING |-> <<"W", "A", "R", "N", "I", "N", "G">>,
     ERROR |-> <<"E", "R", "R", "O", "R">>,
     CRITICAL |-> <<"C", "R", "I", "T", "I", "C", "A", "L">>,
     TRACE |-> <<"T", "R", "A", "C", "E">>, NOTICE |-> <<"N", "O", "T", "I", "C", "E">>,
     DATA |-> <<"D", "A", "T", "A">>]

\* logging._levelToName as the logging module defines it, in its order
StdLevelToName ==
    <<LEVEL_CRITICAL, LEVEL_ERROR, LEVEL_WARNING, LEVEL_INFO, LEVEL_DEBUG, LEVEL_NOTSET>>

\* the keys of Core._levels: an int, a str or a Level; keys of different
\* types are never equal
IntKey(no) == [type |-> "int", no |-> no, name |-> ""]
StrKey(name) == [type |-> "str", no |-> 0, name |-> name]
LevelKey(level) == [type |-> "Level", no |-> level.no, name |-> level.name]

\* d[key] = value on a dict kept as its items in insertion order
DictSetItem(d, key, value) ==
    IF \E i \in 1..Len(d) : d[i].key = key
    THEN [i \in 1..Len(d) |-> IF d[i].key = key THEN [key |-> key, value |-> value] ELSE d[i]]
    ELSE Append(d, [key |-> key, value |-> value])

\* d.get(key): <<value>>, or <<>> for None
DictGetItem(d, key) ==
    IF \E i \in 1..Len(d) : d[i].key = key
    THEN <<(CHOOSE x \in Range(d) : x.key = key).value>>
    ELSE <<>>

\* _get_levels(), on the items of logging._levelToName
RECURSIVE GetLevels(_, _)
GetLevels(items, d) ==
    IF items = <<>> THEN d
    ELSE LET level == Head(items)
             d1 == DictSetItem(d, IntKey(level.no), level)
             d2 == DictSetItem(d1, StrKey(level.name), level)
             d3 == DictSetItem(d2, LevelKey(level), level)
             d4 == DictSetItem(d3, StrKey(NameChars[level.name][1]), level)
         IN GetLevels(Tail(items), d4)

\* Core._levels for the added entries it was built with
LevelsDict(added) == GetLevels(StdLevelToName \o added, <<>>)

\* Core.level(key): ret is <<the Level>>, or raised names the exception
CoreLevel(d, key) ==
    LET ret == DictGetItem(d, key) IN
    IF ret = <<>> THEN [ret |-> <<>>, raised |-> "ValueError"]
    ELSE [ret |-> ret, raised |-> ""]

\* logging.addLevelName(no, name) with a number logging._levelToName has not
AddLevelName(level) ==
    /\ Len(levelToName) < MaxCustomLevels
    /\ \A i \in 1..Len(levelToName) : levelToName[i].no # level.no
    /\ levelToName' = Append(levelToName, level)
    /\ UNCHANGED <<coreVars, plainlog_context, pc, loc, histVars, fcVars, lgVars, ctxVars,
                   levels, lookup>>

\* UPDATE_LEVELS: `self._levels = _get_levels()`
UpdateLevels ==
    /\ levels # levelToName
    /\ levels' = levelToName
    /\ UNCHANGED <<coreVars, plainlog_context, pc, loc, histVars, fcVars, lgVars, ctxVars,
                   levelToName, lookup>>

\* a call of Core.level(key)
LevelCall(key) ==
    /\ lookup' = <<[key |-> key, levels |-> levels, out |-> CoreLevel(LevelsDict(levels), key)]>>
    /\ UNCHANGED <<coreVars, plainlog_context, pc, loc, histVars, fcVars, lgVars, ctxVars,
                   levelToName, levels>>

\* ------------------------------------------------- Core._worker, per command
Got == QueueGet(queue)

\* a loop that goes on getting commands after STOP
WorkerGetsAlways(command) == queue # <<>> /\ Got.item.command = command

\* `command, message = queue.get()` in `while True:`, left by `break`
WorkerGets(command) == worker = "running" /\ queue # <<>> /\ Got.item.command = command

WorkerLog ==
    /\ WorkerGets("LOG")
    /\ LET message == Got.item.message
           chain == ProcessorChain(message.processors, options.processors)
           r == RunProcessors(chain, message.rec)
           d == Dispatch(handlers, r.rec, received, stderr, <<>>)
           entry == [id |-> message.rec.id, rec |-> r.rec, chain |-> chain,
                     core_processors |-> options.processors,
                     handlers |-> handlers, stop |-> r.stop,
                     called |-> IF r.stop THEN <<>> ELSE d.called,
                     crashed |-> ~r.stop /\ d.crashed]
       IN /\ processed' = Append(processed, entry)
          /\ IF r.stop
             THEN UNCHANGED <<received, stderr, worker>>
             ELSE /\ received' = d.received
                  /\ stderr' = d.stderr
                  /\ worker' = IF d.crashed THEN "crashed" ELSE worker
    /\ queue' = Got.rest
    /\ UNCHANGED <<handlers, min_level_no, options, events, plainlog_context, pc, loc,
                   closeCalls, calls, lastAdd, lastCfg, fcVars, lgVars, ctxVars, lvVars>>

WorkerStop ==
    /\ WorkerGets("STOP")
    /\ worker' = "stopped"
    /\ queue' = Got.rest
    /\ UNCHANGED <<handlers, min_level_no, options, events, plainlog_context, pc, loc,
                   histVars, fcVars, lgVars, ctxVars, lvVars>>

WorkerAddHandler ==
    /\ WorkerGets("ADD_HANDLER")
    /\ LET a == AddHandler(handlers, min_level_no, Got.item.message) IN
       /\ handlers' = a.handlers
       /\ min_level_no' = a.min_level_no
    /\ queue' = Got.rest
    /\ UNCHANGED <<options, worker, events, plainlog_context, pc, loc, histVars, fcVars, lgVars,
                   ctxVars, lvVars>>

WorkerRemoveHandler ==
    /\ WorkerGets("REMOVE_HANDLER")
    /\ LET name_ == Got.item.message
           handler_names == IF name_ # None THEN <<name_>> ELSE HandlerNameList(handlers)
           r == RemoveHandlers(handler_names, handlers, min_level_no, closeCalls, stderr)
       IN /\ handlers' = r.handlers
          /\ min_level_no' = r.min_level_no
          /\ closeCalls' = r.closeCalls
          /\ stderr' = r.stderr
    /\ queue' = Got.rest
    /\ UNCHANGED <<options, worker, events, plainlog_context, pc, loc, received, calls,
                   processed, lastAdd, lastCfg, fcVars, lgVars, ctxVars, lvVars>>

\* an OPTIONS command that is not applied
SetOptionsKeep(old, new) == old

\* OPTIONS: `self._options = options`
SetOptions(old, new) == new

WorkerOptions ==
    /\ WorkerGets("OPTIONS")
    /\ options' = SetOptions(options, Got.item.message)
    /\ queue' = Got.rest
    /\ UNCHANGED <<handlers, min_level_no, worker, events, plainlog_context, pc, loc,
                   histVars, fcVars, lgVars, ctxVars, lvVars>>

\* EVENT: `message.set()`
WorkerEvent ==
    /\ WorkerGets("EVENT")
    /\ events' = events \cup {Got.item.message}
    /\ queue' = Got.rest
    /\ UNCHANGED <<handlers, min_level_no, options, worker, plainlog_context, pc, loc,
                   histVars, fcVars, lgVars, ctxVars, lvVars>>

Worker ==
    \/ WorkerLog
    \/ WorkerStop
    \/ WorkerAddHandler
    \/ WorkerRemoveHandler
    \/ WorkerOptions
    \/ WorkerEvent

\* --------------------------------------- handlers.py: FingersCrossedHandler
\* the values __init__ gives the parameters that are None
DefaultActionLevel == 40
DefaultBufferSize == 1
DefaultReset == FALSE

\* FingersCrossedHandler(handler, action_level, buffer_size, reset).  inner
\* is the history of the records the wrapped handler was called with
FingersCrossedHandler(action_level, buffer_size, reset) ==
    [level |-> action_level,
     maxlen |-> buffer_size,
     buffered_records |-> <<>>,
     action_triggered |-> FALSE,
     reset |-> reset,
     inner |-> <<>>]

\* a deque that is not bounded
DequeAppendUnbounded(buf, maxlen, x) == Append(buf, x)

\* deque(maxlen=n).append(x): a full deque drops its leftmost item, a deque
\* of maxlen 0 keeps nothing
DequeAppend(buf, maxlen, x) ==
    IF maxlen = 0 THEN buf
    ELSE IF Len(buf) >= maxlen THEN Append(Tail(buf), x)
    ELSE Append(buf, x)

\* the wrapped handler raises on the records that are marked bad
InnerRaises(rec) == rec.bad

\* an enqueue that passes every record on, whatever the state
EnqueueForward(h, rec) ==
    [h |-> [h EXCEPT !.inner = Append(@, rec)], ret |-> FALSE, raised |-> InnerRaises(rec)]

\* enqueue(record): the handler after the call, what it returned, and
\* whether the wrapped handler raised
Enqueue(h, rec) ==
    IF h.action_triggered
    THEN [h |-> [h EXCEPT !.inner = Append(@, rec)], ret |-> FALSE,
          raised |-> InnerRaises(rec)]
    ELSE [h |-> [h EXCEPT !.buffered_records = DequeAppend(@, h.maxlen, rec)],
          ret |-> rec.level.no >= h.level, raised |-> FALSE]

\* a flush that sets the latch when the wrapped handler raises
OnInnerExceptionLatch(h) == [h EXCEPT !.action_triggered = TRUE]

\* an exception of self._handler(record) in rollover(): nothing catches it,
\* the handler object stays as the loop left it
OnInnerException(h) == h

\* rollover(): an exception of the wrapped handler leaves the loop and the
\* method with the record already popped
RECURSIVE Rollover(_)
Rollover(h) ==
    IF h.buffered_records = <<>>
    THEN [h |-> [h EXCEPT !.action_triggered = ~h.reset], raised |-> FALSE]
    ELSE LET record == Head(h.buffered_records)
             h2 == [h EXCEPT !.buffered_records = Tail(@), !.inner = Append(@, record)]
         IN IF InnerRaises(record) THEN [h |-> OnInnerException(h2), raised |-> TRUE]
            ELSE Rollover(h2)

\* __call__(record)
FcHandle(h, rec) ==
    LET e == Enqueue(h, rec) IN
    IF e.raised THEN [h |-> e.h, raised |-> TRUE]
    ELSE IF e.ret THEN Rollover(e.h)
    ELSE [h |-> e.h, raised |-> FALSE]

\* the records a run offers: DEBUG, ERROR or CRITICAL, bad or not
FcLevels == {LEVEL_DEBUG, LEVEL_ERROR, LEVEL_CRITICAL}

\* the Core calls the handler with one more record
FcCall(level, bad) ==
    /\ Len(fcInput) < MaxRecords
    /\ LET rec == [id |-> Len(fcInput) + 1, level |-> level, bad |-> bad] IN
       /\ fcInput' = Append(fcInput, rec)
       /\ fc' = FcHandle(fc, rec).h
    /\ UNCHANGED <<coreVars, plainlog_context, pc, loc, histVars, lgVars, ctxVars, lvVars>>


\* ------------------------------------------------- Logger: bind, unbind, new
\* a new dict object with the items val
DictAlloc(ds, val) == [dicts |-> Append(ds, val), ref |-> Len(ds) + 1]

\* _validate_extra(extra) of a mapping: deepcopy(extra), a new dict object
ValidateExtra(ds, val) == DictAlloc(ds, val)

\* Logger.__init__: the Options of the new Logger, extra a reference to the
\* dict object _validate_extra made
LoggerNew(ds, name, preprocessors, processors, extra) ==
    LET v == ValidateExtra(ds, extra) IN
    [dicts |-> v.dicts, options |-> Options(name, preprocessors, processors, v.ref)]

\* Logger.bind(**kwargs)
Bind(ds, lg, kwargs) ==
    LoggerNew(ds, lg.name, lg.preprocessors, lg.processors, Merge(ds[lg.extra], kwargs))

\* an unbind that works on the dict of the receiver
UnbindCopyAlias(ds, ref) == [dicts |-> ds, ref |-> ref]

\* `extra = old_extra.copy()`: a new dict object
UnbindCopy(ds, ref) == DictAlloc(ds, ds[ref])

\* a loop that removes nothing
PopKeysNone(d, keys) == d

\* `for key in args: extra.pop(key, None)`
RECURSIVE PopKeys(_, _)
PopKeys(d, keys) == IF keys = <<>> THEN d ELSE PopKeys(Pop(d, Head(keys)), Tail(keys))

\* Logger.unbind(*args)
Unbind(ds, lg, args) ==
    LET c == UnbindCopy(ds, lg.extra)
        popped == [c.dicts EXCEPT ![c.ref] = PopKeys(@, args)]
    IN LoggerNew(popped, lg.name, lg.preprocessors, lg.processors, popped[c.ref])

\* Logger.new(name, extra=extra) with preprocessors and processors left
\* None: a parameter that is None is taken from the receiver; with every
\* parameter None the name is the one found in the caller's frame
AutoName == "module.func"
New(ds, lg, params) ==
    LET name == IF params.name = None /\ ~params.hasExtra THEN AutoName
                ELSE IF params.name = None THEN lg.name ELSE params.name
        extra == IF params.hasExtra THEN params.extra ELSE ds[lg.extra]
    IN LoggerNew(ds, name, lg.preprocessors, lg.processors, extra)

\* the Options of Logger object lg with the items of its extra
LoggerValue(ds, lg) == Options(lg.name, lg.preprocessors, lg.processors, ds[lg.extra])

\* bind(a=0)
BindInputs == {[a |-> 0]}
\* unbind("zz"), unbind("zz", "a")
UnbindInputs == {<<"zz">>, <<"zz", "a">>}
\* new()
NewInputs == { [name |-> None, hasExtra |-> FALSE, extra |-> EmptyDict] }

\* a Logger object as the model keeps it: its Options, and as history the
\* call that made it (receiver, method, argument) and its extra at that time
LoggerObject(opts, from, op, arg, ds) ==
    [options |-> opts, from |-> from, op |-> op, arg |-> arg, extra0 |-> ds[opts.extra]]

CanMakeLogger(t, i) ==
    pc[t] = "idle" /\ Len(loggers) < MaxLoggers /\ i \in 1..Len(loggers)

\* the caller keeps the Logger that a method of Logger object i returned
KeepLogger(r, i, op, arg) ==
    /\ loggers' = Append(loggers, LoggerObject(r.options, i, op, arg, r.dicts))
    /\ dicts' = r.dicts
    /\ UNCHANGED <<coreVars, plainlog_context, pc, loc, histVars, fcVars, ctxVars, lvVars>>

LgBind(t, i, kwargs) ==
    /\ CanMakeLogger(t, i)
    /\ KeepLogger(Bind(dicts, loggers[i].options, kwargs), i, "bind", kwargs)

LgUnbind(t, i, args) ==
    /\ CanMakeLogger(t, i)
    /\ KeepLogger(Unbind(dicts, loggers[i].options, args), i, "unbind", args)

LgNew(t, i, params) ==
    /\ CanMakeLogger(t, i)
    /\ KeepLogger(New(dicts, loggers[i].options, params), i, "new", params)

\* the Logger objects made by a method of Logger object i
MadeFrom(i) == {j \in 1..Len(loggers) : loggers[j].from = i}

\* Logger object i is called: info("y").  obj and made are history: the object
\* called and the number of Logger objects made from it before the call
LoggerLogInputs(i) ==
    { [lg |-> LoggerValue(dicts, loggers[i].options), level |-> LEVEL_INFO, msg |-> "y",
       kwargs |-> EmptyDict, obj |-> i, made |-> Cardinality(MadeFrom(i))] }

\* ------------------------------------------- validation of the parameters
\* Logger.__init__ with parameters of any type: the exception of the first
\* validation that fails, in the order name, preprocessors, processors, extra
LoggerInitRaises(name, preprocessors, processors, extra) ==
    IF ValidateName(name).raised # "" THEN ValidateName(name).raised
    ELSE IF ValidateCallables(preprocessors).raised # ""
    THEN ValidateCallables(preprocessors).raised
    ELSE IF ValidateCallables(processors).raised # ""
    THEN ValidateCallables(processors).raised
    ELSE ValidateMapping(extra).raised

\* add() up to `level = self.level(level)`: the exception raised, if any
AddRaises(lv, params) ==
    IF ~IsCallable(params.handler) THEN "TypeError"
    ELSE CoreLevel(LevelsDict(lv), StrKey(params.level)).raised

\* remove() up to its isinstance test
RemoveRaises(name) ==
    IF ~(name.type = "NoneType" \/ name.type = "str") THEN "TypeError" ELSE ""

\* a call that raised: it is over, and all it leaves is its history
RaiseCall(t, op, params, exception) ==
    /\ CanCall(t)
    /\ calls' = Append(calls, [NewCall(op, t) EXCEPT !.done = TRUE, !.outcome = "raised",
                                   !.input = [params |-> params, raised |-> exception]])
    /\ UNCHANGED <<coreVars, plainlog_context, pc, loc, received, closeCalls, stderr,
                   processed, lastAdd, lastCfg, fcVars, lgVars, ctxVars, lvVars>>

\* Core.add(handler, level=level) with parameters of any type
AddCall(t, params) ==
    IF AddRaises(levels, params) # ""
    THEN RaiseCall(t, "add", params, AddRaises(levels, params))
    ELSE AddStart(t, [handler |-> params.handler.val, name |-> None,
                      level |-> params.level, print_errors |-> TRUE])

\* Core.remove(name) with a name of any type
RemoveCall(t, name) ==
    IF RemoveRaises(name) # ""
    THEN RaiseCall(t, "remove", name, RemoveRaises(name))
    ELSE RemoveStart(t, name.val)

\* Logger.new(name, preprocessors, processors, extra) of Logger object i with
\* parameters of any type, none of them left None: Logger.__init__ raises,
\* or the caller keeps the new Logger
LgNewCall(t, i, params) ==
    LET exception == LoggerInitRaises(params.name, params.preprocessors,
                                      params.processors, params.extra)
    IN IF exception # ""
       THEN RaiseCall(t, "new", params, exception)
       ELSE /\ CanMakeLogger(t, i)
            /\ KeepLogger(LoggerNew(dicts, ValidateName(params.name).ret,
                                    ValidateCallables(params.preprocessors).ret,
                                    ValidateCallables(params.processors).ret,
                                    ValidateMapping(params.extra).ret),
                          i, "new", params)

\* --------------------------------------- Logger.context and contextualize
\* plainlog_context.get({}) in thread t
ContextGet(ctxs, t) == ctxs[t]

\* a ContextVar that all threads share
ContextSetShared(ctxs, t, new_context) == [u \in DOMAIN ctxs |-> new_context]

\* plainlog_context.set(new_context) in thread t: the variable of that
\* thread's context only
ContextSet(ctxs, t, new_context) == [ctxs EXCEPT ![t] = new_context]

\* Logger.context(**kwargs): the ContextVar after the call and the token
Context(ctxs, t, kwargs) ==
    LET new_context == Merge(ContextGet(ctxs, t), kwargs) IN
    [ctxs |-> ContextSet(ctxs, t, new_context), token |-> [old_value |-> ctxs[t]]]

\* Logger.reset_context(token): plainlog_context.reset(token)
ResetContext(ctxs, t, token) == ContextSet(ctxs, t, token.old_value)

\* a context manager that restores only when its block returns
RunsFinallyOnReturn(raised) == ~raised

\* contextualize: `try: yield token / finally: Logger.reset_context(token)`
\* runs the reset whether the block returned or raised
RunsFinally(raised) == TRUE

\* the fields a thread puts into its context with context(): context(req=1)
\* in t1, context(user=9) in t2
CtxFields(t) == IF t = "t1" THEN {[req |-> 1]} ELSE {[user |-> 9]}
\* the fields of the blocks of a thread: contextualize(req=2)
BlockFields(t) == {[req |-> 2]}

\* `with logger.contextualize(**kwargs):` is entered
CtxEnter(t, kwargs) ==
    /\ pc[t] = "idle"
    /\ Len(blocks[t]) < MaxDepth
    /\ LET c == Context(plainlog_context, t, kwargs) IN
       /\ plainlog_context' = c.ctxs
       /\ blocks' = [blocks EXCEPT ![t] = Append(@, [token |-> c.token, kwargs |-> kwargs,
                                                     before |-> plainlog_context[t]])]
    /\ base' = [base EXCEPT ![t] = [NoBlockLeft EXCEPT !.ctx = base[t].ctx]]
    /\ UNCHANGED <<coreVars, pc, loc, histVars, fcVars, lgVars, lvVars>>

\* the innermost block of t is left, by return or by an exception
CtxExit(t, raised) ==
    /\ pc[t] = "idle"
    /\ blocks[t] # <<>>
    /\ LET block == blocks[t][Len(blocks[t])]
           how == IF raised THEN "raise" ELSE "return"
           rest == SubSeq(blocks[t], 1, Len(blocks[t]) - 1)
       IN /\ plainlog_context' = IF RunsFinally(raised)
                                  THEN ResetContext(plainlog_context, t, block.token)
                                  ELSE plainlog_context
          /\ blocks' = [blocks EXCEPT ![t] = rest]
          /\ base' = [base EXCEPT ![t] = IF rest = <<>> THEN [@ EXCEPT !.left = how] ELSE @]
    /\ UNCHANGED <<coreVars, pc, loc, histVars, fcVars, lgVars, lvVars>>

\* Logger.context(**kwargs) whose token is not used
CtxSet(t, kwargs) ==
    /\ pc[t] = "idle"
    /\ Merge(plainlog_context[t], kwargs) # plainlog_context[t]
    /\ plainlog_context' = Context(plainlog_context, t, kwargs).ctxs
    /\ base' = [base EXCEPT ![t] = IF blocks[t] = <<>>
                                   THEN [@ EXCEPT !.ctx = plainlog_context'[t]] ELSE @]
    /\ UNCHANGED <<coreVars, pc, loc, histVars, fcVars, lgVars, blocks, lvVars>>

\* ----------------------------------------------------------- specification

\* the module-level `logger = Logger(_core, "root", None, None, {})` and no
\* other Logger
LoggerInit ==
    LET r == LoggerNew(<<>>, "root", <<>>, <<>>, EmptyDict) IN
    /\ dicts = r.dicts
    /\ loggers = <<LoggerObject(r.options, 0, "root", <<>>, r.dicts)>>

\* no thread is in a contextualize() block, and none has set a context
ContextInit(ts) ==
    /\ blocks = [t \in ts |-> <<>>]
    /\ base = [t \in ts |-> NoBlockLeft]

\* a Core whose worker runs and has an empty queue, with the handler records
\* hs, their lowest level minl and the options opts; no call started by the
\* threads ts
CoreState(ts, hs, minl, opts) ==
    /\ queue = <<>>
    /\ handlers = hs
    /\ min_level_no = minl
    /\ options = opts
    /\ LoggerInit
    /\ ContextInit(ts)
    /\ worker = "running"
    /\ events = {}
    /\ plainlog_context = [t \in ts |-> EmptyDict]
    /\ pc = [t \in ts |-> "idle"]
    /\ loc = [t \in ts |-> LocIdle]
    /\ received = [h \in HandlerObjs \cup {hs[i].handler : i \in 1..Len(hs)} |-> <<>>]
    /\ closeCalls = [h \in HandlerObjs |-> 0]
    /\ stderr = <<>>
    /\ calls = <<>>
    /\ processed = <<>>
    /\ lastAdd = [t \in ts |-> 0]
    /\ lastCfg = [t \in ts |-> 0]
    /\ levelToName = <<>>
    /\ levels = <<>>
    /\ lookup = <<>>

\* Core.__init__
CoreInit == CoreState(Threads, <<>>, MaxSize, CoreOptions0)

Init ==
    /\ CoreInit
    /\ fcInput = <<>>
    /\ fc = FingersCrossedHandler(DefaultActionLevel, DefaultBufferSize, DefaultReset)

Producer(t) ==
    \/ \E in \in LogInputs : LogStart(t, in)
    \/ LogBuild(t)
    \/ \E in \in AddInputs : AddStart(t, in)
    \/ \E name \in RemoveInputs : RemoveStart(t, name)
    \/ \E in \in ConfigInputs : ConfigureStart(t, in)
    \/ ConfigureOptions(t)
    \/ ConfigureAdd(t)
    \/ CloseStart(t)
    \/ CloseRemove(t)
    \/ CloseStop(t)
    \/ CloseJoin(t)
    \/ WaitSet(t)
    \/ WaitTimeout(t)

Next ==
    \/ Producer("t1")
    \/ Worker

Spec == Init /\ [][Next]_vars

\* the Core with callers that also call wait_for_processed() themselves.  The
\* worker thread is scheduled while it has a command to get, and a thread
\* that is inside a call goes on with it: a wait with a timeout returns
\* when the event is set or the timeout has passed, a wait without one
\* when the event is set
Continue(t) ==
    \/ LogBuild(t)
    \/ ConfigureOptions(t)
    \/ ConfigureAdd(t)
    \/ CloseRemove(t)
    \/ CloseStop(t)
    \/ CloseJoin(t)
    \/ WaitSet(t)
    \/ WaitTimeout(t)

BarrierNext ==
    \/ Producer("t1")
    \/ \E timeout \in WaitInputs : WaitForProcessedStart("t1", timeout)
    \/ Worker

SpecBarrier ==
    /\ Init
    /\ [][BarrierNext]_vars
    /\ WF_vars(Worker)
    /\ WF_vars(Continue("t1"))

\* a FingersCrossedHandler with action_level ERROR (the default), any
\* buffer_size up to MaxBuffer and either reset mode, called with any records
FcInit ==
    /\ CoreInit
    /\ fcInput = <<>>
    /\ \E buffer_size \in 0..MaxBuffer, reset \in BOOLEAN :
          fc = FingersCrossedHandler(DefaultActionLevel, buffer_size, reset)

FcNext == \E level \in FcLevels, bad \in BOOLEAN : FcCall(level, bad)

SpecFC == FcInit /\ [][FcNext]_vars

\* levels are added to logging._levelToName, the Core rebuilds its levels and
\* Core.level is called with keys of every kind: the numbers, names, first
\* letters and Level values of the levels of logging and of the added ones,
\* and keys that belong to no level
CustomLevels ==
    {[no |-> 5, name |-> "TRACE"], [no |-> 25, name |-> "NOTICE"], [no |-> 35, name |-> "DATA"]}

AllLevels == Range(StdLevelToName) \cup CustomLevels

LevelKeys ==
    {IntKey(l.no) : l \in AllLevels} \cup {IntKey(7)}
    \cup {StrKey(l.name) : l \in AllLevels} \cup {StrKey("debug")}
    \cup {StrKey(NameChars[l.name][1]) : l \in AllLevels} \cup {StrKey("X")}
    \cup {LevelKey(l) : l \in AllLevels} \cup {LevelKey([no |-> 10, name |-> "TRACE"])}

LevelsNext ==
    \/ \E level \in CustomLevels : AddLevelName(level)
    \/ UpdateLevels
    \/ \E key \in LevelKeys : LevelCall(key)

SpecLevels == Init /\ [][LevelsNext]_vars

\* the handler record of add(cap, level="DEBUG")
CapAtDebug == HandlerRecord("cap", LEVEL_DEBUG, TRUE, "cap")

\* one thread makes Logger objects with bind, unbind and new and logs with
\* them, on a Core that has the handler cap at DEBUG and either the options of
\* __init__ or those of configure(extra={"a": -1})
LoggerSpecInit ==
    /\ \E extra \in {EmptyDict, [a |-> -1]} :
          CoreState(Threads, <<CapAtDebug>>, LEVEL_DEBUG.no,
                    Options("CORE", <<>>, <<>>, extra))
    /\ fcInput = <<>>
    /\ fc = FingersCrossedHandler(DefaultActionLevel, DefaultBufferSize, DefaultReset)

LoggerNext ==
    \/ \E i \in 1..MaxLoggers, kwargs \in BindInputs : LgBind("t1", i, kwargs)
    \/ \E i \in 1..MaxLoggers, args \in UnbindInputs : LgUnbind("t1", i, args)
    \/ \E i \in 1..MaxLoggers, params \in NewInputs : LgNew("t1", i, params)
    \/ \E i \in 1..Len(loggers) : \E in \in LoggerLogInputs(i) :
          Len(calls) < MaxLoggerCalls /\ LogStart("t1", in)
    \/ LogBuild("t1")
    \/ WorkerLog

SpecLogger == LoggerSpecInit /\ [][LoggerNext]_vars

\* a caller passes parameters of the right and of the wrong types to add(),
\* remove() and Logger.new(), on a Core that has the handler cap at DEBUG
\* and whose worker is in time for every wait
AddParams ==
    [handler : {PyFunction("cap2"), PyInt("5")}, level : {"INFO", "TRACE"}]
RemoveParams == {PyNone, PyStr("cap"), PyInt("5")}
NewParams ==
    { [name |-> PyStr("x"), preprocessors |-> PyTuple(<<>>), processors |-> PyTuple(<<>>),
       extra |-> PyDict([a |-> 0])],
      [name |-> PyInt("5"), preprocessors |-> PyTuple(<<>>), processors |-> PyTuple(<<>>),
       extra |-> PyDict([a |-> 0])],
      [name |-> PyStr("x"), preprocessors |-> PyInt("5"), processors |-> PyTuple(<<>>),
       extra |-> PyNone],
      [name |-> PyStr("x"), preprocessors |-> PyFunction("preprocess_exc_info"),
       processors |-> PyTuple(<<PyFunction("filter_all"), PyStr("x")>>), extra |-> PyNone],
      [name |-> PyStr("x"), preprocessors |-> PyNone, processors |-> PyNone,
       extra |-> PyInt("5")] }

ConfigSpecInit ==
    /\ CoreState(Threads, <<CapAtDebug>>, LEVEL_DEBUG.no, CoreOptions0)
    /\ fcInput = <<>>
    /\ fc = FingersCrossedHandler(DefaultActionLevel, DefaultBufferSize, DefaultReset)

ConfigNext ==
    \/ \E params \in AddParams : AddCall("t1", params)
    \/ \E name \in RemoveParams : RemoveCall("t1", name)
    \/ \E i \in 1..MaxLoggers, params \in NewParams : LgNewCall("t1", i, params)
    \/ WaitSet("t1")
    \/ WorkerAddHandler
    \/ WorkerRemoveHandler
    \/ WorkerEvent

SpecConfig == ConfigSpecInit /\ [][ConfigNext]_vars

\* a caller logs with Loggers that have preprocessors of their own and
\* configures the Core's preprocessors in between, on a Core that has the
\* handler cap at DEBUG and whose worker is in time for every wait
LoggerFilterFirst ==
    Options("pre1", <<"filter_all", "preprocess_exc_info", "filter_all">>, <<>>, EmptyDict)
LoggerFilter == Options("pre2", <<"filter_all">>, <<>>, EmptyDict)

PreLogInputs ==
    { [lg |-> lg, level |-> LEVEL_INFO, msg |-> "y", kwargs |-> [a |-> 1]] :
        lg \in {LoggerRoot, LoggerFilter, LoggerFilterFirst} }

PreConfigInputs ==
    { [hasHandlers |-> FALSE, handlers |-> <<>>, preprocessors |-> pre,
       processors |-> <<>>, extra |-> EmptyDict] :
        pre \in {<<"filter_all">>, <<"filter_all", "kwargs_to_extra", "filter_all">>} }

PreprocessNext ==
    \/ \E in \in PreLogInputs : LogStart("t1", in)
    \/ LogBuild("t1")
    \/ \E in \in PreConfigInputs : ConfigureStart("t1", in)
    \/ ConfigureOptions("t1")
    \/ ConfigureAdd("t1")
    \/ WaitSet("t1")
    \/ WorkerLog
    \/ WorkerOptions
    \/ WorkerEvent

SpecPreprocess == ConfigSpecInit /\ [][PreprocessNext]_vars

\* a caller logs with Loggers that have processors of their own and
\* configures the Core's processors in between, on a Core that has the
\* handler cap at DEBUG and whose worker is in time for every wait
LoggerTag == Options("p1", <<>>, <<"tag", "copy_tag">>, EmptyDict)
LoggerRaise == Options("p2", <<>>, <<"raising_processor", "tag">>, EmptyDict)
LoggerStop == Options("p3", <<>>, <<"tag", "kwargs_to_extra", "copy_tag">>, EmptyDict)

ProcLogInputs ==
    { [lg |-> lg, level |-> LEVEL_INFO, msg |-> "y", kwargs |-> [a |-> 1]] :
        lg \in {LoggerTag, LoggerRaise, LoggerStop} }

ProcConfigInputs ==
    { [hasHandlers |-> FALSE, handlers |-> <<>>, preprocessors |-> <<>>,
       processors |-> ps, extra |-> EmptyDict] :
        ps \in {<<"copy_tag">>, <<"raising_processor", "copy_tag">>,
                <<"kwargs_to_extra", "copy_tag">>} }

ProcessNext ==
    \/ \E in \in ProcLogInputs : LogStart("t1", in)
    \/ LogBuild("t1")
    \/ \E in \in ProcConfigInputs : ConfigureStart("t1", in)
    \/ ConfigureOptions("t1")
    \/ ConfigureAdd("t1")
    \/ WaitSet("t1")
    \/ WorkerLog
    \/ WorkerOptions
    \/ WorkerEvent

SpecProcess == ConfigSpecInit /\ [][ProcessNext]_vars

\* a caller logs with the root Logger and with a Logger whose first
\* preprocessor raises, on a Core that has the handler cap at DEBUG
LoggerRaisePre == Options("pre3", <<"raising_processor", "filter_all">>, <<>>, EmptyDict)

PreRaiseLogInputs ==
    LogInputs \cup
    { [lg |-> LoggerRaisePre, level |-> LEVEL_INFO, msg |-> "y", kwargs |-> [a |-> 1]] }

PreRaiseNext ==
    \/ \E in \in PreRaiseLogInputs : LogStart("t1", in)
    \/ LogBuild("t1")
    \/ WorkerLog

SpecPreRaise == ConfigSpecInit /\ [][PreRaiseNext]_vars

\* a Core on which the raising handler bad is registered twice, as "loud"
\* at INFO with print_errors and as "quiet" at DEBUG without, before cap at
\* DEBUG, and a caller that logs
ErrorsSpecInit ==
    /\ CoreState(Threads,
                 <<HandlerRecord("loud", LEVEL_INFO, TRUE, "bad"),
                   HandlerRecord("quiet", LEVEL_DEBUG, FALSE, "bad"),
                   CapAtDebug>>,
                 LEVEL_DEBUG.no, CoreOptions0)
    /\ fcInput = <<>>
    /\ fc = FingersCrossedHandler(DefaultActionLevel, DefaultBufferSize, DefaultReset)

\* a Core with the handlers edit_top at DEBUG, edit_extra at INFO and cap at
\* DEBUG, registered in this order, and a caller that logs
DispatchObjs == {"edit_top", "edit_extra", "cap"}

DispatchSpecInit ==
    /\ CoreState(Threads,
                 <<HandlerRecord("edit_top", LEVEL_DEBUG, TRUE, "edit_top"),
                   HandlerRecord("edit_extra", LEVEL_INFO, TRUE, "edit_extra"),
                   CapAtDebug>>,
                 LEVEL_DEBUG.no, CoreOptions0)
    /\ fcInput = <<>>
    /\ fc = FingersCrossedHandler(DefaultActionLevel, DefaultBufferSize, DefaultReset)

DispatchNext ==
    \/ \E in \in LogInputs : LogStart("t1", in)
    \/ LogBuild("t1")
    \/ WorkerLog

SpecDispatch == DispatchSpecInit /\ [][DispatchNext]_vars

SpecErrors == ErrorsSpecInit /\ [][DispatchNext]_vars

\* a caller passes parameters of the right and of the wrong types to
\* configure(), with and without handlers, on a Core that has the handler
\* cap at DEBUG and whose worker is in time for every wait
ConfigureParams ==
    [handlers : {[given |-> FALSE, list |-> <<>>],
                 [given |-> TRUE,
                  list |-> <<[handler |-> "cap2", name |-> None, level |-> "INFO",
                              print_errors |-> TRUE]>>]},
     extra : {PyDict([g |-> 1]), PyInt("5")},
     preprocessors : {PyNone},
     processors : {PyTuple(<<PyFunction("tag")>>), PyTuple(<<PyFunction("tag"), PyStr("x")>>)}]

ConfigureNext ==
    \/ \E params \in ConfigureParams : ConfigureCall("t1", params)
    \/ ConfigureOptions("t1")
    \/ ConfigureAdd("t1")
    \/ WaitSet("t1")
    \/ WorkerAddHandler
    \/ WorkerRemoveHandler
    \/ WorkerOptions
    \/ WorkerEvent

SpecConfigure == ConfigSpecInit /\ [][ConfigureNext]_vars

\* thread t1 calls configure() while thread t2 logs with the root Logger at
\* DEBUG and INFO, on a Core that has the handler cap at DEBUG and whose
\* worker is in time for every wait.  configure() either replaces the
\* handlers by cap2 at DEBUG or leaves them; no preprocessor or processor of
\* its Options signals drop
ReconfigureInputs ==
    { [hasHandlers |-> TRUE,
       handlers |-> <<[handler |-> "cap2", name |-> None, level |-> "DEBUG",
                       print_errors |-> TRUE]>>,
       preprocessors |-> <<>>, processors |-> <<"tag">>, extra |-> [g |-> 1]],
      [hasHandlers |-> FALSE, handlers |-> <<>>,
       preprocessors |-> <<"filter_all">>, processors |-> <<"copy_tag">>,
       extra |-> [g |-> 2]] }

ReconfigureLogInputs ==
    { [lg |-> LoggerRoot, level |-> LEVEL_DEBUG, msg |-> "x", kwargs |-> EmptyDict],
      [lg |-> LoggerRoot, level |-> LEVEL_INFO, msg |-> "y", kwargs |-> [a |-> 1]] }

ReconfigureSpecInit ==
    /\ CoreState(ContextThreads, <<CapAtDebug>>, LEVEL_DEBUG.no, CoreOptions0)
    /\ fcInput = <<>>
    /\ fc = FingersCrossedHandler(DefaultActionLevel, DefaultBufferSize, DefaultReset)

ReconfigureNext ==
    \/ \E in \in ReconfigureInputs : ConfigureStart("t1", in)
    \/ ConfigureOptions("t1")
    \/ ConfigureAdd("t1")
    \/ WaitSet("t1")
    \/ \E in \in ReconfigureLogInputs : LogStart("t2", in)
    \/ LogBuild("t2")
    \/ WorkerLog
    \/ WorkerAddHandler
    \/ WorkerRemoveHandler
    \/ WorkerOptions
    \/ WorkerEvent

SpecReconfigure == ReconfigureSpecInit /\ [][ReconfigureNext]_vars

\* two threads log with the root logger, on a Core that has the handler cap
\* at DEBUG; t1 enters and leaves contextualize() blocks, and both call
\* context()
ContextSpecInit ==
    /\ CoreState(ContextThreads, <<CapAtDebug>>, LEVEL_DEBUG.no, CoreOptions0)
    /\ fcInput = <<>>
    /\ fc = FingersCrossedHandler(DefaultActionLevel, DefaultBufferSize, DefaultReset)

ContextThread(t) ==
    \/ \E kwargs \in CtxFields(t) : CtxSet(t, kwargs)
    \/ \E in \in LoggerLogInputs(1) : Len(calls) < MaxCtxCalls /\ LogStart(t, in)
    \/ LogBuild(t)

ContextNext ==
    \/ \E kwargs \in BlockFields("t1") : CtxEnter("t1", kwargs)
    \/ \E raised \in BOOLEAN : CtxExit("t1", raised)
    \/ \E t \in ContextThreads : ContextThread(t)
    \/ WorkerLog

SpecContext == ContextSpecInit /\ [][ContextNext]_vars

\* =================================================================== claims
CallIds == 1..Len(calls)
LogIds == {id \in CallIds : calls[id].op = "log"}

\* a LOG command of call id is in the queue
InQueue(id) ==
    \E i \in 1..Len(queue) : queue[i].command = "LOG" /\ queue[i].message.rec.id = id

\* handler object h was called with the record of call id
ReceivedBy(h, id) == \E i \in 1..Len(received[h]) : received[h][i].id = id

Entries == Range(processed)

\* the record of entry e is one the handler of hr accepts
Accepts(hr, e) == "level" \in DOMAIN e.rec /\ e.rec.level.no >= hr.level.no

\* C1: every handler is called with the records in the order in which their
\* LOG commands were submitted to the queue, each record at most once.
C1_Ordering ==
    \A h \in HandlerObjs : \A i, j \in 1..Len(received[h]) :
        i < j => calls[received[h][i].id].seq < calls[received[h][j].id].seq

C1_Witness ==
    \E h \in HandlerObjs :
        /\ Len(received[h]) >= 2
        /\ received[h][1].msg # received[h][2].msg

\* C2: a log call whose level number is below the min_level_no it reads
\* returns at the level check: no record is built, no preprocessor is called,
\* no LOG command is put, the worker gets nothing and no handler is called.
C2_FastExit ==
    \A id \in LogIds :
        calls[id].level_no < calls[id].minSeen =>
            /\ calls[id].outcome = "fast_exit"
            /\ ~calls[id].built
            /\ calls[id].preRun = <<>>
            /\ ~InQueue(id)
            /\ \A e \in Entries : e.id # id
            /\ \A h \in HandlerObjs : ~ReceivedBy(h, id)

C2_Witness ==
    \E id \in LogIds :
        /\ calls[id].level_no < calls[id].minSeen
        /\ calls[id].minSeen < MaxSize
        /\ calls[id].outcome = "fast_exit"

\* the log calls made next after an add() returned, at a level the added
\* handler accepts
AfterAdd(id) ==
    /\ calls[id].op = "log"
    /\ calls[id].after # 0
    /\ calls[id].level_no >= calls[calls[id].after].hr.level.no

\* C3 as claimed: once such a log call has returned and its LOG command is no
\* longer in the queue, the added handler has been called with its record.
C3_AddBarrier_Claimed ==
    \A id \in CallIds :
        (AfterAdd(id) /\ calls[id].done /\ ~InQueue(id)) =>
            ReceivedBy(calls[calls[id].after].hr.handler, id)

\* the add() did not time out and found its name free: its handler record
\* was registered when it returned
AddTookEffect(a) == ~calls[a].timedOut /\ calls[a].registered

\* C3 as amended: if the wait of add() did not time out and the handler was
\* registered under its name, the next log call of the caller at a level >= L
\* passes the level check, and when the worker processes its LOG command
\* and no processor vetoes the record or takes its level away, the handler is
\* called with it.
C3_AddBarrier ==
    \A id \in CallIds :
        (AfterAdd(id) /\ AddTookEffect(calls[id].after)) =>
            /\ calls[id].outcome # "fast_exit"
            /\ \A e \in Entries :
                  (e.id = id /\ ~e.stop /\ Accepts(calls[calls[id].after].hr, e)) =>
                      ReceivedBy(calls[calls[id].after].hr.handler, id)

C3_Witness ==
    \E id \in CallIds :
        /\ AfterAdd(id) /\ AddTookEffect(calls[id].after)
        /\ calls[id].minSeen = calls[calls[id].after].hr.level.no
        /\ ReceivedBy(calls[calls[id].after].hr.handler, id)

\* C4 as claimed: a log call made after a configure() returned reads the
\* Options of that configure() on the caller's thread, and the worker
\* processes its LOG command with the processors of those Options; the
\* Options and handlers of a configure() are in effect when it returns.
C4_ConfigureOrdering_Claimed ==
    /\ \A id \in LogIds :
          (calls[id].cfg # 0 /\ calls[id].built) =>
              calls[id].optsSeen = calls[calls[id].cfg].opts
    /\ \A e \in Entries :
          calls[e.id].cfg # 0 =>
              e.core_processors = calls[calls[e.id].cfg].opts.processors
    /\ \A g \in CallIds :
          (calls[g].op = "configure" /\ calls[g].done) => calls[g].applied

\* C4 as amended: the same for a configure() whose last barrier wait did
\* not time out; the processors the worker applies are those of the last
\* configure() in every case.
C4_ConfigureOrdering ==
    /\ \A id \in LogIds :
          (calls[id].cfg # 0 /\ ~calls[calls[id].cfg].timedOut /\ calls[id].built) =>
              calls[id].optsSeen = calls[calls[id].cfg].opts
    /\ \A e \in Entries :
          calls[e.id].cfg # 0 =>
              e.core_processors = calls[calls[e.id].cfg].opts.processors
    /\ \A g \in CallIds :
          (calls[g].op = "configure" /\ calls[g].done /\ ~calls[g].timedOut) =>
              calls[g].applied

C4_Witness ==
    \E e \in Entries :
        /\ calls[e.id].cfg # 0
        /\ ~calls[calls[e.id].cfg].timedOut
        /\ calls[e.id].optsSeen = calls[calls[e.id].cfg].opts
        /\ calls[e.id].optsSeen.extra # EmptyDict
        /\ e.core_processors # <<>>

\* C5: every record that reaches the dispatch loop is passed to every
\* registered handler that accepts its level, whatever handlers raise, and a
\* raising handler does not end the worker.
C5_HandlerIsolation ==
    /\ \A e \in Entries :
          ~e.stop => \A hr \in Range(e.handlers) :
                        Accepts(hr, e) => ReceivedBy(hr.handler, e.id)
    /\ (\A e \in Entries : "level" \in DOMAIN e.rec) => worker # "crashed"

C5_Witness ==
    \E e \in Entries : \E i, j \in 1..Len(e.handlers) :
        /\ ~e.stop
        /\ i < j
        /\ HandlerRaises(e.handlers[i].handler) /\ Accepts(e.handlers[i], e)
        /\ ~HandlerRaises(e.handlers[j].handler) /\ Accepts(e.handlers[j], e)
        /\ ReceivedBy(e.handlers[j].handler, e.id)
        /\ worker = "running"

\* entry e was dispatched: the worker survived it and called every handler
\* registered then that accepts the record
Dispatched(e) ==
    /\ ~e.crashed
    /\ \A hr \in Range(e.handlers) : Accepts(hr, e) => ReceivedBy(hr.handler, e.id)

\* C6: when close() has returned, every LOG command put before it was
\* processed by the worker and, unless a processor vetoed it, dispatched.
C6_TeardownDrains_Claimed ==
    \A k \in CallIds :
        (calls[k].op = "close" /\ calls[k].done) =>
            \A id \in 1..(k - 1) :
                (calls[id].op = "log" /\ calls[id].outcome = "enqueued") =>
                    \E e \in Entries : e.id = id /\ (e.stop \/ Dispatched(e))

\* C7: the worker thread ends only by a STOP command.
C7_WorkerNeverCrashes_Claimed == worker \in {"running", "stopped"}

\* the callables that return the record they were given
ReturnRecord == {"preprocess_exc_info", "kwargs_to_extra", "context_to_extra", "eval_extra"}

\* C8: a record that met filter_all (which returns {}) in its processor chain
\* is vetoed, a record whose processors all return the record is dispatched,
\* and a log call whose preprocessors all return the record puts its LOG
\* command.
C8_DropConvention_Claimed ==
    /\ \A e \in Entries :
          /\ "filter_all" \in Range(e.chain) => e.stop
          /\ Range(e.chain) \subseteq ReturnRecord => ~e.stop
    /\ \A id \in LogIds :
          (calls[id].built /\ Range(calls[id].optsSeen.preprocessors) \subseteq ReturnRecord)
              => calls[id].outcome = "enqueued"

\* call id is a configure() of the default profile (DEFAULT_PREPROCESSORS,
\* DEFAULT_PROCESSORS, one handler: cap at INFO) and has returned with that
\* in effect
RegistersCapAtInfo(id) ==
    /\ calls[id].op = "configure" /\ calls[id].input.hasHandlers
    /\ calls[id].done /\ ~calls[id].timedOut /\ calls[id].applied

\* call id is the log call of that input on the root logger, and it is over
IsLog(id, level, msg, kwargs) ==
    /\ calls[id].op = "log" /\ calls[id].done /\ ~InQueue(id)
    /\ calls[id].input = [lg |-> LoggerRoot, level |-> level, msg |-> msg, kwargs |-> kwargs]

\* C9: a Core configured with one capturing handler at INFO and the default
\* preprocessors and processors, then logger.debug("x"), then
\* logger.info("y", a=1): the handler has captured exactly one record, with
\* msg "y" and extra["a"] = 1.
C9_RoundTrip_Claimed ==
    ( /\ Len(calls) >= 3
      /\ RegistersCapAtInfo(1)
      /\ IsLog(2, LEVEL_DEBUG, "x", EmptyDict)
      /\ IsLog(3, LEVEL_INFO, "y", [a |-> 1])
      /\ worker = "running" ) =>
        /\ Len(received["cap"]) = 1
        /\ received["cap"][1].msg = "y"
        /\ "a" \in DOMAIN received["cap"][1].extra
        /\ received["cap"][1].extra["a"] = 1

\* ------------------------------------------------ FingersCrossedHandler
\* the run so far: records below the action level, then one at or above it,
\* and the wrapped handler raised on none of them
OneTrigger ==
    /\ fcInput # <<>>
    /\ \A i \in 1..Len(fcInput) : ~fcInput[i].bad
    /\ \A i \in 1..(Len(fcInput) - 1) : fcInput[i].level.no < fc.level
    /\ fcInput[Len(fcInput)].level.no >= fc.level

\* the last n items of s
LastN(s, n) == SubSeq(s, Len(s) - n + 1, Len(s))

\* C10 as claimed: N records below the threshold and then a trigger give the
\* wrapped handler N+1 records, all of the run, in order; with more than N
\* records before the trigger it gets the last N of them and the trigger.
C10_FingersCrossed_Claimed ==
    (OneTrigger /\ fc.maxlen >= 1) =>
        fc.inner = LastN(fcInput, Min(Len(fcInput), fc.maxlen + 1))

\* C10 as amended: with buffer size N >= 1 the wrapped handler gets the last
\* min(k+1, N) records of the run, the trigger included, in order: the
\* trigger takes a place of the buffer.
C10_FingersCrossed ==
    (OneTrigger /\ fc.maxlen >= 1) =>
        fc.inner = LastN(fcInput, Min(Len(fcInput), fc.maxlen))

C10_Witness ==
    /\ OneTrigger
    /\ fc.maxlen = 3
    /\ Len(fcInput) = 4
    /\ fc.inner = LastN(fcInput, 3)

\* every record offered so far is below the action level
AllBelow == \A i \in 1..Len(fcInput) : fcInput[i].level.no < fc.level

\* C11: after any sequence of records below the action level from the
\* initial state, the wrapped handler was called with nothing, the buffer
\* holds at most buffer_size records, and they are the most recent ones in
\* arrival order.
C11_BufferingWithholds ==
    AllBelow =>
        /\ fc.inner = <<>>
        /\ ~fc.action_triggered
        /\ Len(fc.buffered_records) <= fc.maxlen
        /\ fc.buffered_records = LastN(fcInput, Min(Len(fcInput), fc.maxlen))

C11_Witness ==
    /\ AllBelow
    /\ fc.maxlen = 2
    /\ Len(fcInput) = 4
    /\ fc.buffered_records = LastN(fcInput, 2)

\* a record at or above the action level has been handled
TriggerSeen == \E i \in 1..Len(fcInput) : fcInput[i].level.no >= fc.level

\* the record the current step offers
Offered == fcInput'[Len(fcInput')]

\* C12: in latch mode, once a record at or above the action level has been
\* handled the handler is triggered with nothing buffered, and every later
\* call passes its record to the wrapped handler within the call and leaves
\* the handler so.
C12_Latch_Claimed ==
    /\ [](~fc.reset /\ TriggerSeen =>
            fc.action_triggered /\ fc.buffered_records = <<>>)
    /\ [][(~fc.reset /\ TriggerSeen) =>
            /\ fc'.inner = Append(fc.inner, Offered)
            /\ fc'.action_triggered
            /\ fc'.buffered_records = <<>>]_vars

\* C13: in reset mode, after a call with a record at or above the action
\* level everything buffered has been passed on, oldest first, the handler
\* is buffering again with an empty buffer, and a following record below the
\* action level is withheld.
C13_Reset_Claimed ==
    /\ [][(fc.reset /\ Offered.level.no >= fc.level) =>
            /\ fc'.inner = fc.inner \o DequeAppend(fc.buffered_records, fc.maxlen, Offered)
            /\ ~fc'.action_triggered
            /\ fc'.buffered_records = <<>>]_vars
    /\ [][(fc.reset /\ Offered.level.no < fc.level) => fc'.inner = fc.inner]_vars

\* the records handler object cap was called with
CapRecords == Range(received["cap"])
LoggerIds == 1..Len(loggers)
\* the items of the extra of Logger object i
ExtraOf(i) == dicts[loggers[i].options.extra]
\* d without the keys in the sequence keys
Without(d, keys) == [k \in (DOMAIN d) \ Range(keys) |-> d[k]]

\* C14: bind, unbind and new return a new Logger and leave every existing
\* Logger's name, preprocessors, processors and extra as they were; the
\* extra of a record is the Core's extra merged with the extra the called
\* Logger had when it was made, so a bind made from a logger adds nothing to
\* the records of that logger.
C14_BindImmutable ==
    /\ [][\A i \in LoggerIds :
            /\ i \in 1..Len(loggers')
            /\ LoggerValue(dicts', loggers'[i].options) = LoggerValue(dicts, loggers[i].options)
            /\ \A j \in 1..Len(loggers') :
                  j > Len(loggers) => loggers'[j].options.extra # loggers[i].options.extra]_vars
    /\ [](\A rec \in CapRecords :
            rec.extra = Merge(calls[rec.id].optsSeen.extra,
                              loggers[calls[rec.id].input.obj].extra0))

\* bind(a=0) was called on the root logger, and a later call on the root
\* logger gave a record without a; unbind("zz", "a") was called on the logger that
\* bind returned, and a later call on that logger gave a record with a
C14_Witness ==
    /\ \E rec \in CapRecords : \E j \in LoggerIds :
          /\ loggers[j].op = "bind" /\ loggers[j].arg = [a |-> 0]
          /\ MadeFrom(1) = {j} /\ calls[rec.id].input.obj = 1
          /\ calls[rec.id].input.made = 1
          /\ "a" \notin DOMAIN rec.extra
    /\ \E rec \in CapRecords : \E j \in LoggerIds :
          /\ loggers[j].op = "unbind" /\ loggers[j].arg = <<"zz", "a">>
          /\ MadeFrom(calls[rec.id].input.obj) = {j}
          /\ calls[rec.id].input.made = 1
          /\ "a" \in DOMAIN rec.extra /\ rec.extra["a"] = 0

\* logger j was made by unbind
Unbound(j) == loggers[j].op = "unbind"

\* C15 as claimed: the Logger unbind returns has the receiver's extra without
\* the given keys, and the records of a logger made by unbind(k) from a
\* logger made by bind(k=v) have no k in extra.
C15_Unbind_Claimed ==
    /\ \A j \in LoggerIds : Unbound(j) =>
          ExtraOf(j) = Without(ExtraOf(loggers[j].from), loggers[j].arg)
    /\ \A rec \in CapRecords :
          LET j == calls[rec.id].input.obj IN
          (Unbound(j) /\ loggers[loggers[j].from].op = "bind") =>
              \A k \in Range(loggers[j].arg) \cap DOMAIN loggers[loggers[j].from].arg :
                  k \notin DOMAIN rec.extra

\* C15: the Logger unbind returns has the receiver's name, preprocessors and
\* processors, and the receiver's extra without the given keys (a key that is
\* not there changes nothing); the extra of its records is the Core's extra
\* merged with that, so a removed key is in a record exactly when the Core's
\* extra has it, with the Core's value.
C15_Unbind ==
    /\ \A j \in LoggerIds : Unbound(j) =>
          LET recv == loggers[j].from IN
          /\ ExtraOf(j) = Without(ExtraOf(recv), loggers[j].arg)
          /\ Range(loggers[j].arg) \cap DOMAIN ExtraOf(recv) = {} => ExtraOf(j) = ExtraOf(recv)
          /\ LoggerValue(dicts, loggers[j].options) =
                [LoggerValue(dicts, loggers[recv].options) EXCEPT !.extra = ExtraOf(j)]
    /\ \A rec \in CapRecords :
          LET j == calls[rec.id].input.obj
              core_extra == calls[rec.id].optsSeen.extra
          IN Unbound(j) =>
              /\ rec.extra = Merge(core_extra, ExtraOf(j))
              /\ \A k \in Range(loggers[j].arg) :
                    IF k \in DOMAIN core_extra
                    THEN k \in DOMAIN rec.extra /\ rec.extra[k] = core_extra[k]
                    ELSE k \notin DOMAIN rec.extra

\* with core extra {a: -1}, a logger made by unbind("zz", "a") from one made by
\* bind(a=0) has an empty extra and has given a record with extra.a == -1
C15_Witness ==
    \E rec \in CapRecords :
        LET j == calls[rec.id].input.obj IN
        /\ Unbound(j) /\ loggers[j].arg = <<"zz", "a">>
        /\ loggers[loggers[j].from].op = "bind"
        /\ ExtraOf(loggers[j].from) = [a |-> 0] /\ ExtraOf(j) = EmptyDict
        /\ rec.extra = [a |-> -1]

\* C16: the extra of every record is the Core's extra, as the log call read
\* it, merged with the extra of the Logger called, the Logger's value taken for
\* a key both have; with core extra {a: -1} the root logger gives extra.a == -1
\* and a logger made by bind(a=0) gives extra.a == 0.
C16_ExtraPrecedence ==
    \A rec \in CapRecords :
        LET core_extra == calls[rec.id].optsSeen.extra
            extra == ExtraOf(calls[rec.id].input.obj)
        IN /\ DOMAIN rec.extra = DOMAIN core_extra \cup DOMAIN extra
           /\ \A k \in DOMAIN rec.extra :
                 rec.extra[k] = IF k \in DOMAIN extra THEN extra[k] ELSE core_extra[k]
           /\ (core_extra = [a |-> -1] /\ calls[rec.id].input.obj = 1) => rec.extra["a"] = -1
           /\ (core_extra = [a |-> -1] /\ loggers[calls[rec.id].input.obj].op = "bind"
                  /\ loggers[calls[rec.id].input.obj].arg = [a |-> 0]) => rec.extra["a"] = 0

\* with core extra {a: -1}, the root logger and a logger made from it by
\* bind(a=0) have each given a record
C16_Witness ==
    /\ options.extra = [a |-> -1]
    /\ \E rec \in CapRecords : calls[rec.id].input.obj = 1 /\ rec.extra = [a |-> -1]
    /\ \E rec \in CapRecords :
          LET j == calls[rec.id].input.obj IN
          /\ loggers[j].op = "bind" /\ loggers[j].from = 1 /\ loggers[j].arg = [a |-> 0]
          /\ rec.extra = [a |-> 0]

\* the record of a log call made by thread t
By(rec, t) == calls[rec.id].thread = t

\* C17: entering a contextualize(**fields) block merges fields into the
\* thread's ambient context, and leaving it, by return or by an exception,
\* puts back the context the thread had when it entered that block; so a
\* thread that is in no block has the context it has outside every block, and
\* the record of a log call made in no block has that context.
C17_ContextScoping ==
    /\ [][\A t \in ContextThreads :
            /\ Len(blocks'[t]) > Len(blocks[t]) =>
                  plainlog_context'[t] =
                      Merge(plainlog_context[t], blocks'[t][Len(blocks'[t])].kwargs)
            /\ Len(blocks'[t]) < Len(blocks[t]) =>
                  plainlog_context'[t] = blocks[t][Len(blocks[t])].before]_vars
    /\ [](\A t \in ContextThreads : blocks[t] = <<>> => plainlog_context[t] = base[t].ctx)
    /\ [](\A rec \in CapRecords :
            calls[rec.id].depth = 0 => rec.context = calls[rec.id].outer.ctx)

\* t1 called context(req=1), then left a contextualize() block by an
\* exception, then logged: the record's context is {req: 1}
C17_Witness ==
    \E rec \in CapRecords :
        /\ By(rec, "t1")
        /\ calls[rec.id].depth = 0
        /\ calls[rec.id].outer = [ctx |-> [req |-> 1], left |-> "raise"]
        /\ rec.context = [req |-> 1]

\* the keys thread t puts into its context
KeysOf(t) ==
    UNION {DOMAIN kwargs : kwargs \in CtxFields(t) \cup (IF t = "t1" THEN BlockFields(t) ELSE {})}

\* C18: the ambient context of a thread, and the context of every record of
\* a log call it makes, has none of the keys that only another thread put into
\* its context.
C18_ContextIsolation ==
    \A t, u \in ContextThreads : t # u =>
        /\ DOMAIN plainlog_context[t] \cap KeysOf(u) = {}
        /\ \A rec \in CapRecords : By(rec, t) => DOMAIN rec.context \cap KeysOf(u) = {}

\* a thread made a log call with fields in its context while the other thread
\* had fields in its own
C18_Witness ==
    \E rec \in CapRecords : \E t, u \in ContextThreads :
        /\ t # u /\ By(rec, t)
        /\ calls[rec.id].ctxs[u] # EmptyDict
        /\ rec.context # EmptyDict
        /\ DOMAIN rec.context = KeysOf(t)

\* the records of the LOG commands in the queue
QueuedRecords ==
    {queue[i].message.rec : i \in {j \in 1..Len(queue) : queue[j].command = "LOG"}}

\* C19: the context of a record, in the queue and when the handler is called
\* with it, is the ambient context its thread had at the log call, whatever
\* the thread did to its context since.
C19_ContextSnapshot ==
    \A rec \in QueuedRecords \cup CapRecords :
        rec.context = calls[rec.id].ctxs[calls[rec.id].thread]

\* the handler was called with a record whose context is not the context its
\* thread has now
C19_Witness ==
    \E rec \in CapRecords :
        /\ rec.context = [req |-> 2]
        /\ plainlog_context[calls[rec.id].thread] = [req |-> 1]

\* the worker takes an ADD_HANDLER command whose name is registered
ReAdd ==
    /\ WorkerGets("ADD_HANDLER")
    /\ Got.item.message.name \in HandlerNames(handlers)
    /\ queue' = Got.rest

\* handler object h is the callable of a registered handler record
Registered(hs, h) == \E i \in 1..Len(hs) : hs[i].handler = h

\* C20: an ADD_HANDLER command whose name is registered leaves the handler
\* records (callable, level, print_errors) and the minimum level as they are;
\* a handler object is called only while a handler record holds it, and a
\* handler record is only ever registered under a name that is free, so a
\* handler offered under a taken name gets no record before the name is
\* removed.
C20_ReAddNoOp ==
    [][/\ ReAdd => (handlers' = handlers /\ min_level_no' = min_level_no)
       /\ \A h \in HandlerObjs :
             Len(received'[h]) > Len(received[h]) => Registered(handlers, h)
       /\ \A i \in 1..Len(handlers') :
             (\A k \in 1..Len(handlers) : handlers[k] # handlers'[i]) =>
                 handlers'[i].name \notin HandlerNames(handlers)]_vars

\* add(cap2, name="cap") returned while cap held the name, and a log call made
\* after it was handled by cap and not by cap2
C20_Witness ==
    \E a, id \in CallIds :
        /\ a < id
        /\ calls[a].op = "add" /\ calls[a].input.handler = "cap2"
        /\ calls[a].done /\ ~calls[a].timedOut /\ ~calls[a].registered
        /\ Registered(handlers, "cap")
        /\ ReceivedBy("cap", id)
        /\ received["cap2"] = <<>>

\* C27: whenever the worker is between two commands, Core.min_level_no is
\* the smallest level number of the registered handlers, and sys.maxsize
\* when no handler is registered
LevelNos == {handlers[i].level.no : i \in 1..Len(handlers)}

C27_MinLevel ==
    /\ handlers = <<>> => min_level_no = MaxSize
    /\ handlers # <<>> => /\ min_level_no \in LevelNos
                          /\ \A n \in LevelNos : min_level_no <= n

\* a remove() has returned with its command processed, and the handler that
\* is left is the one registered at DEBUG
C27_Witness ==
    /\ \E i \in CallIds : calls[i].op = "remove" /\ calls[i].done /\ ~calls[i].timedOut
    /\ Len(handlers) = 1
    /\ handlers[1].handler = "bad"
    /\ min_level_no = 10
    /\ queue = <<>>

\* C26: once the worker has processed STOP, no step calls a handler, changes
\* the handlers, the Options or the minimum level, closes a handler or sets
\* an event; the queue keeps what it held and only grows
QueueKept == Len(queue') >= Len(queue) /\ SubSeq(queue', 1, Len(queue)) = queue

C26_StopFinal ==
    [][worker = "stopped" =>
          /\ UNCHANGED <<handlers, min_level_no, options, events, worker>>
          /\ UNCHANGED <<received, closeCalls, stderr, processed>>
          /\ QueueKept]_vars

\* after close(), an add() has returned from a timed-out wait and a log call
\* was made; the ADD_HANDLER command is still queued
C26_Witness ==
    /\ worker = "stopped"
    /\ \E k \in 1..Len(queue) : queue[k].command = "ADD_HANDLER"
    /\ \E i, j \in CallIds :
          /\ i < j
          /\ calls[i].op = "add" /\ calls[i].done /\ calls[i].timedOut
          /\ calls[j].op = "log" /\ calls[j].done

\* C21: the worker's REMOVE_HANDLER step takes out every registered record
\* the command names (all of them for None) and calls close() once per record
\* taken out whose handler has a close(), whether or not an earlier close()
\* raised; no other step calls close(), so a handler that is no longer
\* registered is not closed again
RemoveStep == WorkerGets("REMOVE_HANDLER") /\ queue' = Got.rest
Targets == IF Got.item.message = None THEN HandlerNames(handlers) ELSE {Got.item.message}
TakenOut(h) == {i \in 1..Len(handlers) : handlers[i].name \in Targets /\ handlers[i].handler = h}

LogStep == WorkerGets("LOG") /\ queue' = Got.rest
Accepting(e) == SelectSeq(e.handlers, LAMBDA hr : hr.level.no <= e.rec.level.no)
CallsOf(h, e) ==
    [i \in 1..Cardinality({k \in 1..Len(e.called) : e.called[k].handler = h}) |-> e.rec]

C28_Dispatch ==
    [][IF LogStep
       THEN LET e == processed'[Len(processed')] IN
            /\ processed' = Append(processed, e)
            /\ e.handlers = handlers
            /\ e.stop => e.called = <<>>
            /\ (~e.stop /\ "level" \in DOMAIN e.rec) => e.called = Accepting(e)
            /\ \A i \in 1..Len(e.called) : e.rec.level.no >= e.called[i].level.no
            /\ \A h \in HandlerObjs : received'[h] = received[h] \o CallsOf(h, e)
       ELSE received' = received /\ processed' = processed]_vars

\* with a handler at INFO registered before a handler at DEBUG, a DEBUG
\* record was passed to the second one only
C28_Witness ==
    \E e \in Entries :
        /\ Len(e.handlers) = 2
        /\ "level" \in DOMAIN e.rec
        /\ e.handlers[1].level.no > e.rec.level.no
        /\ e.called = <<e.handlers[2]>>
        /\ received[e.handlers[2].handler] = <<e.rec>>
        /\ received[e.handlers[1].handler] = <<>>

\* C22: every call of add, remove, configure and wait_for_processed that a
\* caller has started returns to it
InBarrierCall(t) ==
    /\ pc[t] # "idle"
    /\ calls[loc[t].id].op \in {"add", "remove", "configure", "wait"}

C22_BoundedWaits_Claimed ==
    \A t \in Threads : InBarrierCall(t) ~> (pc[t] = "idle")

\* C25: an event is set only by the worker's step for its EVENT command, when
\* that command is the oldest in the queue and the LOG commands of all earlier
\* calls have been processed; and an EVENT command that is queued with no
\* STOP before it while the worker is alive has its event set eventually
Pending(ev) ==
    \E k \in 1..Len(queue) :
        /\ queue[k] = [command |-> "EVENT", message |-> ev]
        /\ \A j \in 1..(k - 1) : queue[j].command # "STOP"

EventIds == (1..MaxCalls) \X (1..3)

C25_SetOnlyAfter ==
    [][\A ev \in events' \ events :
          /\ WorkerGets("EVENT") /\ Got.item.message = ev
          /\ queue' = Got.rest
          /\ \A id \in 1..(ev[1] - 1) :
                (calls[id].op = "log" /\ calls[id].outcome = "enqueued") =>
                    \E e \in Entries : e.id = id]_vars

C25_EventuallySet ==
    \A ev \in EventIds : (worker = "running" /\ Pending(ev)) ~> (ev \in events)

C25_EventBarrier_Claimed == C25_SetOnlyAfter /\ C25_EventuallySet

\* C24: a Core.level call whose key is the number, the name, the first
\* letter of the name or the Level value of a level of the registry returns
\* that level, and a call with any other key raises and returns nothing
LookupKeys(level) ==
    {IntKey(level.no), StrKey(level.name), StrKey(NameChars[level.name][1]), LevelKey(level)}

C24_LevelLookup_Claimed ==
    \A i \in 1..Len(lookup) :
        LET call == lookup[i]
            registry == Range(StdLevelToName \o call.levels)
        IN /\ \A level \in registry :
                 call.key \in LookupKeys(level) => call.out = [ret |-> <<level>>, raised |-> ""]
           /\ (\A level \in registry : call.key \notin LookupKeys(level)) =>
                 call.out = [ret |-> <<>>, raised |-> "ValueError"]

\* C23: a call of add(), remove() or Logger.new() that raises puts no command
\* and leaves the handlers, the Options, the minimum level, the Logger objects
\* and the caller's position as they were; and what was not refused is valid:
\* every add() that went on and every registered handler record has a callable
\* handler and a level of the registry, every REMOVE_HANDLER command carries
\* None or a string, and every Logger object has a string as name and
\* callables as preprocessors and processors
RaisedStep == Len(calls') = Len(calls) + 1 /\ calls'[Len(calls')].outcome = "raised"

Callables == HandlerObjs \cup {"preprocess_exc_info", "filter_all"}

C23_Valid ==
    /\ \A id \in CallIds :
          (calls[id].op = "add" /\ calls[id].outcome # "raised") =>
              /\ calls[id].input.handler \in Callables
              /\ \E l \in Range(StdLevelToName) : calls[id].input.level = l.name
    /\ \A i \in 1..Len(handlers) :
          handlers[i].handler \in Callables /\ handlers[i].level \in Range(StdLevelToName)
    /\ \A k \in 1..Len(queue) :
          /\ queue[k].command = "REMOVE_HANDLER" => queue[k].message \in {None, "cap"}
          /\ queue[k].command = "ADD_HANDLER" => queue[k].message.handler \in Callables
    /\ \A j \in 1..Len(loggers) :
          /\ loggers[j].options.name \in {"root", "x"}
          /\ Range(loggers[j].options.preprocessors) \subseteq Callables
          /\ Range(loggers[j].options.processors) \subseteq Callables

C23_FailFast ==
    /\ []C23_Valid
    /\ [][RaisedStep => UNCHANGED <<coreVars, pc, loc, lgVars>>]_vars

\* add() has raised for a handler that is not callable and for a level that
\* does not exist, remove() for a name that is an int and Logger.new() for a
\* processor that is a string; nothing is queued and the Core is as it was
C23_Witness ==
    /\ \E a, b, c \in CallIds :
          /\ calls[a].op = "add" /\ calls[a].outcome = "raised"
          /\ calls[a].input.raised = "TypeError"
          /\ calls[b].op = "add" /\ calls[b].outcome = "raised"
          /\ calls[b].input.raised = "ValueError"
          /\ calls[c].op = "new" /\ calls[c].outcome = "raised"
          /\ calls[c].input.params.processors.type = "tuple"
    /\ queue = <<>>
    /\ handlers = <<CapAtDebug>>
    /\ min_level_no = LEVEL_DEBUG.no
    /\ Len(loggers) = 1

\* C29: every handler called for a record is called with the record as it
\* was when the processors were done with it: what a handler called earlier
\* for the same record did to its copy does not show
C29_CopyIsolation_Claimed ==
    \A e \in Entries : \A i \in 1..Len(e.called) :
        \A k \in 1..Len(received[e.called[i].handler]) :
            received[e.called[i].handler][k].id = e.id =>
                received[e.called[i].handler][k] = e.rec

\* the place of the first preprocessor of a chain that returns the record,
\* which _log reads as the signal to drop; 0 when the chain has none
FirstStop(chain) ==
    IF \E i \in 1..Len(chain) : chain[i] \in ReturnRecord
    THEN CHOOSE i \in 1..Len(chain) :
            /\ chain[i] \in ReturnRecord
            /\ \A j \in 1..(i - 1) : chain[j] \notin ReturnRecord
    ELSE 0

\* C30: in a log call that passed the level check the preprocessors called
\* are, in this order, the Logger's own and then those of the Core's Options
\* the call read, up to and including the first one that signals drop; when
\* one does, the call puts no LOG command and the worker and the handlers
\* never see the record; when none does, all of them ran and the LOG
\* command is put.
C30_PreprocessorChain ==
    \A id \in LogIds :
        calls[id].built =>
            LET chain == calls[id].input.lg.preprocessors
                            \o calls[id].optsSeen.preprocessors
                n == FirstStop(chain)
            IN /\ calls[id].preRun = IF n = 0 THEN chain ELSE SubSeq(chain, 1, n)
               /\ n # 0 => /\ calls[id].outcome = "pre_drop"
                           /\ calls[id].seq = 0
                           /\ ~InQueue(id)
                           /\ \A e \in Entries : e.id # id
                           /\ \A h \in HandlerObjs : ~ReceivedBy(h, id)
               /\ n = 0 => calls[id].outcome = "enqueued"

\* a call whose Logger preprocessors all ran, after them one of the Core's,
\* and the second of the Core's signalled drop with a third one left
C30_Witness ==
    \E id \in LogIds :
        /\ calls[id].built
        /\ calls[id].input.lg = LoggerFilter
        /\ calls[id].preRun = <<"filter_all", "filter_all", "kwargs_to_extra">>
        /\ Len(calls[id].optsSeen.preprocessors) = 3
        /\ calls[id].outcome = "pre_drop"

\* the record after the callables of seq were applied to it one after the
\* other
RECURSIVE Applied(_, _)
Applied(seq, rec) ==
    IF seq = <<>> THEN rec ELSE Applied(Tail(seq), CallProcessor(Head(seq), rec).rec)

\* the processors of a chain up to and including the first one that returns
\* the record, which the worker reads as the veto
UpToVeto(chain) ==
    LET n == FirstStop(chain) IN IF n = 0 THEN chain ELSE SubSeq(chain, 1, n)

\* C31: when the worker gets a LOG command, the processors applied to its
\* record are the per-call ones and then those of the Core's Options of that
\* moment, in this order and each on the record as the one before left it,
\* up to the first veto; a vetoed record is passed to no handler, and a
\* record without veto is passed to the handlers as the last processor left
\* it.
C31_ProcessorChain ==
    [][LogStep =>
        LET message == Got.item.message
            chain == message.processors \o options.processors
            e == processed'[Len(processed')]
        IN /\ processed' = Append(processed, e)
           /\ e.chain = chain
           /\ e.rec = Applied(UpToVeto(chain), message.rec)
           /\ e.stop = (FirstStop(chain) # 0)
           /\ e.stop => received' = received
           /\ ~e.stop => /\ e.called # <<>>
                         /\ \A i \in 1..Len(e.called) :
                               LET r == received'[e.called[i].handler]
                               IN r # <<>> /\ r[Len(r)] = e.rec]_vars

\* a record that went through tag and copy_tag of its Logger and copy_tag of
\* the Core and was passed to the handler, and a record vetoed by
\* kwargs_to_extra with a processor left
C31_Witness ==
    /\ \E e \in Entries :
          /\ e.chain = <<"tag", "copy_tag", "copy_tag">>
          /\ e.core_processors = <<"copy_tag">>
          /\ e.rec.kwargs = [a |-> 1, t |-> 1]
          /\ e.rec.extra = [t2 |-> 1]
          /\ ReceivedBy("cap", e.id)
    /\ \E e \in Entries :
          /\ e.chain = <<"tag", "kwargs_to_extra", "copy_tag", "copy_tag">>
          /\ e.stop
          /\ e.rec.extra = [a |-> 1, t |-> 1]
          /\ ~ReceivedBy("cap", e.id)

NotRaising(p) == p # "raising_processor"

\* C32: a LOG command whose chain holds a processor that raises has the
\* outcome it would have without that processor: the processors after it
\* are applied, the record is vetoed only if another processor vetoes it,
\* and is passed to the handlers otherwise.
C32_ProcessorRaises ==
    [][(LogStep /\ \E i \in 1..Len(processed'[Len(processed')].chain) :
                      ~NotRaising(processed'[Len(processed')].chain[i])) =>
        LET e == processed'[Len(processed')]
            others == SelectSeq(e.chain, NotRaising)
        IN /\ e.rec = Applied(UpToVeto(others), Got.item.message.rec)
           /\ e.stop = (FirstStop(others) # 0)
           /\ ~e.stop => /\ e.called = Accepting(e)
                         /\ received'["cap"] = Append(received["cap"], e.rec)
                         /\ stderr' = stderr]_vars

\* a record whose first processor raised: tag of its Logger and copy_tag of
\* the Core were applied after it and the handler got the record
C32_Witness ==
    \E e \in Entries :
        /\ e.chain = <<"raising_processor", "tag", "raising_processor", "copy_tag">>
        /\ ~e.stop
        /\ e.rec.extra = [t2 |-> 1]
        /\ received["cap"][Len(received["cap"])] = e.rec

\* C33: a log call whose chain holds a preprocessor that raises does not
\* raise: every preprocessor of the chain is called, up to the first one
\* that signals drop, and the LOG command is put unless one does.
C33_PreprocessorRaises_Claimed ==
    \A id \in LogIds :
        (calls[id].built /\ \E i \in 1..Len(calls[id].input.lg.preprocessors) :
                                ~NotRaising(calls[id].input.lg.preprocessors[i])) =>
            LET chain == calls[id].input.lg.preprocessors
                            \o calls[id].optsSeen.preprocessors
            IN /\ calls[id].outcome # "raised"
               /\ calls[id].preRun = UpToVeto(chain)
               /\ FirstStop(chain) = 0 => calls[id].outcome = "enqueued"

\* the diagnostics due for entry e: one for every handler called that raised
\* and has print_errors set, in call order
Diagnostics(e) ==
    LET loud == SelectSeq(e.called,
                          LAMBDA hr : HandlerRaises(hr.handler) /\ hr.print_errors)
    IN [i \in 1..Len(loud) |-> [kind |-> "emit", handler |-> loud[i].name]]

C35_OneGeneration_Claimed ==
    \A e \in Entries : e.core_processors = calls[e.id].optsSeen.processors

\* C37: every log call made while another thread reconfigures the handlers,
\* at a level that the old and the new handlers accept, puts its LOG
\* command, and the record is passed to a handler when the worker has
\* processed the command.
C37_NoLossWindow_Claimed ==
    \A id \in LogIds :
        calls[id].done =>
            /\ calls[id].outcome = "enqueued"
            /\ ~InQueue(id) => \E h \in DOMAIN received : ReceivedBy(h, id)

\* C36: when a configure() has raised, the registered handlers, the minimum
\* level and the Options are those it found.
C36_AllOrNothing_Claimed ==
    \A id \in CallIds :
        (/\ calls[id].op = "configure" /\ calls[id].outcome = "raised"
         /\ id = Len(calls)) =>
            /\ handlers = calls[id].input.before.handlers
            /\ min_level_no = calls[id].input.before.min_level_no
            /\ options = calls[id].input.before.options

\* no record offered up to and including the current step makes the wrapped
\* handler raise
NoneBad == \A i \in 1..Len(fcInput') : ~InnerRaises(fcInput'[i])

\* C38: for every buffer_size and both reset modes, a call with a record at
\* or above the action level passes that record to the wrapped handler
\* within the call, as the last record passed on.
C38_TriggerDelivered_Claimed ==
    [][(Offered.level.no >= fc.level /\ NoneBad) =>
        /\ Len(fc'.inner) > Len(fc.inner)
        /\ fc'.inner[Len(fc'.inner)] = Offered]_vars

\* the place of the first record of seq on which the wrapped handler raises,
\* 0 when there is none
FirstBad(seq) ==
    IF \E i \in 1..Len(seq) : InnerRaises(seq[i])
    THEN CHOOSE i \in 1..Len(seq) :
            InnerRaises(seq[i]) /\ \A j \in 1..(i - 1) : ~InnerRaises(seq[j])
    ELSE 0

\* the wrapped handler was called with records as they were offered, each at
\* most once and in arrival order; what is buffered arrived after everything
\* passed on, is in arrival order and fits the buffer; a triggered handler
\* has nothing buffered
C39_Discipline ==
    /\ \A i \in 1..Len(fc.inner) :
          /\ fc.inner[i] = fcInput[fc.inner[i].id]
          /\ \A j \in 1..(i - 1) : fc.inner[j].id < fc.inner[i].id
    /\ \A i \in 1..Len(fc.buffered_records) :
          /\ fc.buffered_records[i] = fcInput[fc.buffered_records[i].id]
          /\ \A j \in 1..(i - 1) : fc.buffered_records[j].id < fc.buffered_records[i].id
          /\ \A j \in 1..Len(fc.inner) : fc.inner[j].id < fc.buffered_records[i].id
    /\ Len(fc.buffered_records) <= fc.maxlen
    /\ fc.action_triggered => fc.buffered_records = <<>>

\* C39: the discipline above holds in every state, and a flush in which the
\* wrapped handler raises has passed on the buffered records up to the one
\* that raised, leaves the records behind it in the buffer and leaves the
\* handler buffering.
C39_Delivery ==
    /\ []C39_Discipline
    /\ [][LET flush == DequeAppend(fc.buffered_records, fc.maxlen, Offered)
              k == FirstBad(flush)
          IN (~fc.action_triggered /\ Offered.level.no >= fc.level /\ k # 0) =>
                /\ fc'.inner = fc.inner \o SubSeq(flush, 1, k)
                /\ fc'.buffered_records = SubSeq(flush, k + 1, Len(flush))
                /\ ~fc'.action_triggered]_vars

\* the wrapped handler raised on the first record of a flush of three: two
\* records, the trigger among them, are still buffered and the handler is
\* buffering
C39_Witness ==
    /\ fc.inner # <<>> /\ InnerRaises(fc.inner[Len(fc.inner)])
    /\ ~fc.action_triggered
    /\ Len(fc.buffered_records) = 2
    /\ fc.buffered_records[2].level.no >= fc.level
    /\ fc.buffered_records[1].id = fc.inner[Len(fc.inner)].id + 1

\* C40: when a close() has returned, the worker is not running, no handler
\* is registered and min_level_no is the sentinel; every log call after it
\* returns at the level check, and every close() after it returns without
\* putting a command.
C40_ClosedInert_Claimed ==
    \A k \in CallIds :
        (calls[k].op = "close" /\ calls[k].done) =>
            /\ worker # "running"
            /\ handlers = <<>>
            /\ min_level_no = MaxSize
            /\ \A id \in CallIds :
                  id > k =>
                      /\ calls[id].op = "log" => calls[id].outcome = "fast_exit"
                      /\ calls[id].op = "close" => calls[id].outcome = "not_alive"

====
